---- MODULE Spec2Model ----
(***************************************************************************)
(* A model of the gcloud-agent repository:                                 *)
(*   src/claude45sonnet/main.py      GCloudCommandGenerator (LLM + help)   *)
(*   src/gpt5pro/main.py             index / score / render / validate     *)
(*   src/gpt5pro/simplified/main.py  keyword -> template generator         *)
(* Python strings are sequences of one-character strings, so that strip,   *)
(* split, startswith, "in" and the regular expressions are computed, not   *)
(* assumed.  The gcloud executable and the generative model are the        *)
(* environment: their answers are drawn from small sets.                   *)
(***************************************************************************)
EXTENDS Integers, Sequences, FiniteSets, TLC

VARIABLES
    pc,              \* which program is running and where it stands
    world,           \* the installed gcloud: argv -> (return code, output)
    max_iterations,  \* GCloudCommandGenerator.max_iterations
    user_prompt,     \* generate_command's user_prompt
    iteration,       \* number of loop iterations of generate_command entered
    previous_error,  \* generate_command's local previous_error
    attempts,        \* history: one record per attempt of generate_command
    result,          \* the value generate_command returned
    command,         \* the command string handed to a validator
    syntaxResult,    \* what _validate_command_syntax returned, with its help calls
    stringResult,    \* what validate_command_string returned, with its help call
    help_out,        \* a help text handed to the flag scraper
    scraped,         \* the flags the scraper extracted from help_out
    spec,            \* a CommandSpec handed to render_command
    rendered,        \* history: the strings render_command returned for spec
    index,           \* the command index: a sequence of CommandSpecs in dict order
    prompt,          \* main's args.prompt
    topk,            \* main's args.topk
    candidates,      \* what choose_candidates returned
    printed,         \* the command main printed
    scoreTokens,     \* the prompt_tokens handed to score_candidate
    scoreCalls,      \* history: one record per call of score_candidate
    parsePath,       \* the path_tokens handed to parse_help_for_command
    parsed,          \* the CommandSpec parse_help_for_command returned
    parsedCmd,       \* render_command of that CommandSpec
    parsedCheck,     \* validate_command_string of that command string
    partial,         \* the partial_command whose help is asked for
    runResult,       \* what run(["gcloud", ..., "--help"]) returned
    helpResult,      \* what _get_gcloud_help(partial_command) returned
    indexFile,       \* INDEX_FILE: the cached index, None while it does not exist
    metaFile,        \* META_FILE, None while it does not exist
    force,           \* main's args.reindex
    runs,            \* how many times the program was started
    argvPrompt,      \* sys.argv[1] of the template generator, None when absent
    service,         \* what pick_service returned
    action,          \* what pick_action returned
    simpleOut        \* what the template generator printed

vars == <<pc, world, max_iterations, user_prompt, iteration, previous_error,
          attempts, result, command, syntaxResult, stringResult, help_out,
          scraped, spec, rendered, index, prompt, topk, candidates, printed,
          scoreTokens, scoreCalls, parsePath, parsed, parsedCmd, parsedCheck,
          partial, runResult, helpResult, indexFile, metaFile, force, runs,
          argvPrompt, service, action, simpleOut>>

genVars == <<max_iterations, user_prompt, iteration, previous_error, attempts, result>>
valVars == <<command, syntaxResult, stringResult>>
scrapeVars == <<help_out, scraped>>
renderVars == <<spec, rendered>>
chooseVars == <<index, prompt, topk, candidates, printed>>
scoreVars == <<scoreTokens, scoreCalls>>
parseVars == <<parsePath, parsed, parsedCmd, parsedCheck>>
runVars == <<partial, runResult, helpResult>>
buildVars == <<indexFile, metaFile, force, runs>>
simpleVars == <<argvPrompt, service, action, simpleOut>>
restVars == <<scoreVars, parseVars, runVars, buildVars, simpleVars>>

(***************************************************************************)
(* Bounds of the model                                                     *)
(***************************************************************************)
MaxIterations == 3
MaxRenders == 3
MaxIndex == 2
MaxTopk == 2

(***************************************************************************)
(* Characters and strings                                                  *)
(***************************************************************************)
Lower == {"a","b","c","d","e","f","g","h","i","j","k","l","m",
          "n","o","p","q","r","s","t","u","v","w","x","y","z"}
Upper == {"A","B","C","D","E","F","G","H","I","J","K","L","M",
          "N","O","P","Q","R","S","T","U","V","W","X","Y","Z"}
Digit == {"0","1","2","3","4","5","6","7","8","9"}
\* Python's \w
WordChar == Lower \cup Upper \cup Digit \cup {"_"}
\* Python's \s and the characters str.strip() and str.split() drop
SpaceChar == {" ", "\n", "\t"}

ToLower(c) ==
    CASE c = "A" -> "a" [] c = "B" -> "b" [] c = "C" -> "c" [] c = "D" -> "d"
      [] c = "E" -> "e" [] c = "F" -> "f" [] c = "G" -> "g" [] c = "H" -> "h"
      [] c = "I" -> "i" [] c = "J" -> "j" [] c = "K" -> "k" [] c = "L" -> "l"
      [] c = "M" -> "m" [] c = "N" -> "n" [] c = "O" -> "o" [] c = "P" -> "p"
      [] c = "Q" -> "q" [] c = "R" -> "r" [] c = "S" -> "s" [] c = "T" -> "t"
      [] c = "U" -> "u" [] c = "V" -> "v" [] c = "W" -> "w" [] c = "X" -> "x"
      [] c = "Y" -> "y" [] c = "Z" -> "z" [] OTHER -> c

\* str.lower()
LowerStr(s) == [i \in 1..Len(s) |-> ToLower(s[i])]

\* s[from:] with a 1-based first position
Drop(s, n) == SubSeq(s, n + 1, Len(s))
Take(s, n) == SubSeq(s, 1, n)

\* s.startswith(p)
StartsWith(s, p) == Len(p) <= Len(s) /\ SubSeq(s, 1, Len(p)) = p

\* s[i:].startswith(p) with i 1-based
StartsWithAt(s, i, p) ==
    i + Len(p) - 1 <= Len(s) /\ SubSeq(s, i, i + Len(p) - 1) = p

\* p in s, for strings
Contains(s, p) == \E i \in 1..(Len(s) - Len(p) + 1) : StartsWithAt(s, i, p)

\* number of leading characters of s that are in set C
RECURSIVE LeadingRun(_, _, _)
LeadingRun(s, i, C) ==
    IF i <= Len(s) /\ s[i] \in C THEN LeadingRun(s, i + 1, C) ELSE i - 1

\* number of characters of s from position i on that are in set C
RunFrom(s, i, C) == LeadingRun(s, i, C) - (i - 1)

RECURSIVE TrailingKeep(_, _)
TrailingKeep(s, n) ==
    IF n >= 1 /\ s[n] \in SpaceChar THEN TrailingKeep(s, n - 1) ELSE n

\* str.lstrip(), str.strip()
LStrip(s) == Drop(s, LeadingRun(s, 1, SpaceChar))
Strip(s) == LStrip(Take(s, TrailingKeep(s, Len(s))))

\* sep.join(parts)
RECURSIVE Join(_, _)
Join(parts, sep) ==
    IF parts = <<>> THEN <<>>
    ELSE IF Len(parts) = 1 THEN parts[1]
    ELSE parts[1] \o sep \o Join(Tail(parts), sep)

\* str.split(): the maximal runs of non-whitespace characters
RECURSIVE SplitFrom(_, _)
SplitFrom(s, i) ==
    IF i > Len(s) THEN <<>>
    ELSE IF s[i] \in SpaceChar THEN SplitFrom(s, i + 1)
    ELSE LET n == RunFrom(s, i, {c \in {s[k] : k \in i..Len(s)} : c \notin SpaceChar})
         IN  <<SubSeq(s, i, i + n - 1)>> \o SplitFrom(s, i + n)
Split(s) == SplitFrom(s, 1)

\* str.split('\n')
RECURSIVE SplitLinesFrom(_, _, _)
SplitLinesFrom(s, i, start) ==
    LET breaks == {k \in i..Len(s) : s[k] = "\n"}
    IN  IF breaks = {} THEN <<SubSeq(s, start, Len(s))>>
        ELSE LET k == CHOOSE j \in breaks : \A r \in breaks : j <= r
             IN  <<SubSeq(s, start, k - 1)>> \o SplitLinesFrom(s, k + 1, k + 1)
SplitNewline(s) == SplitLinesFrom(s, 1, 1)

Range(seq) == {seq[i] : i \in 1..Len(seq)}

SP == <<" ">>
NL == <<"\n">>

(***************************************************************************)
(* The words the model's inputs are built from                             *)
(***************************************************************************)
\* "gcloud"
S_gcloud ==
    <<"g","c","l","o","u","d">>
\* "--help"
S_help ==
    <<"-","-","h","e","l","p">>
\* "beta"
S_beta ==
    <<"b","e","t","a">>
\* "alpha"
S_alpha ==
    <<"a","l","p","h","a">>
\* "run"
S_run ==
    <<"r","u","n">>
\* "deploy"
S_deploy ==
    <<"d","e","p","l","o","y">>
\* "jobs"
S_jobs ==
    <<"j","o","b","s">>
\* "list"
S_list ==
    <<"l","i","s","t">>
\* "describe"
S_describe ==
    <<"d","e","s","c","r","i","b","e">>
\* "iam"
S_iam ==
    <<"i","a","m">>
\* "roles"
S_roles ==
    <<"r","o","l","e","s">>
\* "sql"
S_sql ==
    <<"s","q","l">>
\* "--region"
F_region ==
    <<"-","-","r","e","g","i","o","n">>
\* "--zone"
F_zone ==
    <<"-","-","z","o","n","e">>
\* "--location"
F_location ==
    <<"-","-","l","o","c","a","t","i","o","n">>
\* "--project"
F_project ==
    <<"-","-","p","r","o","j","e","c","t">>
\* "--format"
F_format ==
    <<"-","-","f","o","r","m","a","t">>
\* "--quiet"
F_quiet ==
    <<"-","-","q","u","i","e","t">>
\* "--verbosity"
F_verbosity ==
    <<"-","-","v","e","r","b","o","s","i","t","y">>
\* "--account"
F_account ==
    <<"-","-","a","c","c","o","u","n","t">>
\* "--configuration"
F_configuration ==
    <<"-","-","c","o","n","f","i","g","u","r","a","t","i","o","n">>
\* "--reg"
F_reg ==
    <<"-","-","r","e","g">>
\* "--bogus"
F_bogus ==
    <<"-","-","b","o","g","u","s">>

\* "NAME"
L_name ==
    <<"N","A","M","E">>
\* "FLAGS"
L_flags ==
    <<"F","L","A","G","S">>
\* "NOTES"
L_notes ==
    <<"N","O","T","E","S">>
\* "GCLOUD WIDE FLAGS"
L_wide ==
    <<"G","C","L","O","U","D"," ","W","I","D","E"," ","F","L","A","G","S">>
\* "    gcloud run"
L_usage_run ==
    <<" "," "," "," ","g","c","l","o","u","d"," ","r","u","n">>
\* "    gcloud run deploy"
L_usage_deploy ==
    <<" "," "," "," ","g","c","l","o","u","d"," ","r","u","n"," ","d","e",
      "p","l","o","y">>
\* "     --region=REGION"
L_region ==
    <<" "," "," "," "," ","-","-","r","e","g","i","o","n","=","R","E","G",
      "I","O","N">>
\* "     --zone"
L_zone ==
    <<" "," "," "," "," ","-","-","z","o","n","e">>
\* "    --project --format"
L_widelist ==
    <<" "," "," "," ","-","-","p","r","o","j","e","c","t"," ","-","-","f",
      "o","r","m","a","t">>
\* "        Text."
L_text ==
    <<" "," "," "," "," "," "," "," ","T","e","x","t",".">>
\* "ERROR: Invalid choice"
E_invalid ==
    <<"E","R","R","O","R",":"," ","I","n","v","a","l","i","d"," ","c","h",
      "o","i","c","e">>
\* "TimeoutExpired"
E_TimeoutExpired ==
    <<"T","i","m","e","o","u","t","E","x","p","i","r","e","d">>
\* "FileNotFoundError"
E_FileNotFoundError ==
    <<"F","i","l","e","N","o","t","F","o","u","n","d","E","r","r","o","r">>
\* "No such file"
E_nofile ==
    <<"N","o"," ","s","u","c","h"," ","f","i","l","e">>
\* "timed out"
E_timeout ==
    <<"t","i","m","e","d"," ","o","u","t">>
\* the backquote character (SANY's lexer accepts none inside a string)
BackQuote == "BACKQUOTE"
\* a markdown fence: three backquotes
S_fence ==
    <<BackQuote,BackQuote,BackQuote>>
\* "bash"
S_bash ==
    <<"b","a","s","h">>
\* "shell"
S_shell ==
    <<"s","h","e","l","l">>
\* "=P"
S_eqP ==
    <<"=","P">>

(***************************************************************************)
(* The environment: the gcloud executable                                  *)
(***************************************************************************)
\* a subprocess that ran to completion
Completed(rc, out, err) ==
    [raises |-> FALSE, returncode |-> rc, stdout |-> out, stderr |-> err,
     exc_type |-> <<>>, exc |-> <<>>]
\* subprocess.run raising an exception e, with type(e).__name__ = name and
\* str(e) = text
Raised(name, text) ==
    [raises |-> TRUE, returncode |-> 0, stdout |-> <<>>, stderr |-> <<>>,
     exc_type |-> name, exc |-> text]

\* what an argv the world does not list does: gcloud rejects the command
UnknownCommand == Completed(2, <<>>, E_invalid)

\* subprocess.run(argv, capture_output=True, text=True, ...)
Subprocess(argv) == IF argv \in DOMAIN world THEN world[argv] ELSE UnknownCommand

HelpArgv(path) == <<S_gcloud>> \o path \o <<S_help>>

\* help texts of a command group and of a command
HelpRun == Join(<<L_name, L_usage_run, L_wide, L_widelist>>, NL) \o NL
HelpRunDeploy ==
    Join(<<L_name, L_usage_deploy, L_flags, L_region, L_text, L_zone, L_notes, L_text>>, NL) \o NL

(***************************************************************************)
(* src/claude45sonnet/main.py: GCloudCommandGenerator                      *)
(***************************************************************************)
\* Python's None and a value that is not None
None == <<>>
Some(v) == <<v>>

\* A message: a fixed text followed by the formatted values (an f-string).
Msg(text, args) == [text |-> text, args |-> args]
\* len(message) == 0
IsEmptyMsg(m) == m.text = "" /\ Join(m.args, <<",", " ">>) = <<>>

\* _get_gcloud_help: (success, help_text)
GetGcloudHelp(partial_command) ==
    LET cmd == S_gcloud \o SP \o partial_command \o SP \o S_help
        r == Subprocess(Split(cmd))
    IN  IF r.raises
        THEN [success |-> FALSE, help_text |-> r.exc]
        ELSE [success |-> r.returncode = 0, help_text |-> r.stdout \o r.stderr]

\* re.findall(r'--[\w-]+', s), scanning from position i
RECURSIVE FindFlagsFrom(_, _)
FindFlagsFrom(s, i) ==
    IF i > Len(s) THEN <<>>
    ELSE LET n == IF StartsWithAt(s, i, <<"-", "-">>)
                  THEN RunFrom(s, i + 2, WordChar \cup {"-"})
                  ELSE 0
         IN  IF n >= 1
             THEN <<SubSeq(s, i, i + 1 + n)>> \o FindFlagsFrom(s, i + 2 + n)
             ELSE FindFlagsFrom(s, i + 1)
FindFlags(s) == FindFlagsFrom(s, 1)

\* s.split(c)[0]
BeforeFirst(s, c) == Take(s, LeadingRun(s, 1, Range(s) \ {c}))

\* _validate_full_command: (is_valid, error_message)
ValidateFullCommand(cmd, help_text) ==
    LET flags == FindFlags(cmd)
        flag_name(k) == BeforeFirst(flags[k], "=")
        bad == {k \in 1..Len(flags) : ~Contains(help_text, flag_name(k))}
        idx == SelectSeq([k \in 1..Len(flags) |-> k], LAMBDA k : k \in bad)
        invalid_flags == [j \in 1..Len(idx) |-> flag_name(idx[j])]
    IN  IF invalid_flags # <<>>
        THEN [is_valid |-> FALSE, message |-> Msg("Invalid flags: ", invalid_flags)]
        ELSE [is_valid |-> TRUE, message |-> Msg("Command syntax is valid", <<>>)]

\* command with a leading 'gcloud' removed (lines 62-63)
WithoutGcloud(cmd) ==
    IF StartsWith(Strip(cmd), S_gcloud) THEN Strip(Drop(Strip(cmd), 6)) ELSE cmd

\* mutant: the prefixes are taken longest first
CheckParts_LongestFirst(parts, i) ==
    SelectSeq(Take(parts, Len(parts) + 1 - i), LAMBDA p : ~StartsWith(p, <<"-">>))

\* [p for p in parts[:i] if not p.startswith('-')]
CheckParts(parts, i) == SelectSeq(Take(parts, i), LAMBDA p : ~StartsWith(p, <<"-">>))

\* the loop of _validate_command_syntax from index i on; calls is the history
\* of the help calls made so far
RECURSIVE SyntaxLoop(_, _, _, _)
SyntaxLoop(cmd, parts, i, calls) ==
    IF i > Len(parts)
    THEN [is_valid |-> FALSE,
          message |-> Msg("Invalid gcloud command structure: ", <<cmd>>),
          calls |-> calls]
    ELSE LET check_parts == CheckParts(parts, i)
             partial_cmd == Join(check_parts, SP)
             h == GetGcloudHelp(partial_cmd)
             now == Append(calls, [i |-> i, partial_cmd |-> partial_cmd,
                                   success |-> h.success])
         IN  IF check_parts = <<>> THEN SyntaxLoop(cmd, parts, i + 1, calls)
             ELSE IF h.success
                  THEN [is_valid |-> ValidateFullCommand(cmd, h.help_text).is_valid,
                        message |-> ValidateFullCommand(cmd, h.help_text).message,
                        calls |-> now]
                  ELSE SyntaxLoop(cmd, parts, i + 1, now)

\* _validate_command_syntax: (is_valid, error_message), with the help calls it made
ValidateCommandSyntax(cmd0) ==
    LET cmd == WithoutGcloud(cmd0)
        parts == Split(cmd)
    IN  IF Len(parts) = 0
        THEN [is_valid |-> FALSE, message |-> Msg("Empty command", <<>>), calls |-> <<>>]
        ELSE SyntaxLoop(cmd, parts, 1, <<>>)

\* re.sub(r'```(?:bash|shell)?\n?', '', s), scanning from position i
RECURSIVE RemoveFencesFrom(_, _)
RemoveFencesFrom(s, i) ==
    IF i > Len(s) THEN <<>>
    ELSE IF StartsWithAt(s, i, S_fence)
         THEN LET a == i + 3
                  b == IF StartsWithAt(s, a, S_bash) THEN a + 4
                       ELSE IF StartsWithAt(s, a, S_shell) THEN a + 5 ELSE a
                  c == IF StartsWithAt(s, b, NL) THEN b + 1 ELSE b
              IN  RemoveFencesFrom(s, c)
         ELSE <<s[i]>> \o RemoveFencesFrom(s, i + 1)

\* re.sub(r'```', '', s), scanning from position i
RECURSIVE RemoveTriplesFrom(_, _)
RemoveTriplesFrom(s, i) ==
    IF i > Len(s) THEN <<>>
    ELSE IF StartsWithAt(s, i, S_fence) THEN RemoveTriplesFrom(s, i + 3)
         ELSE <<s[i]>> \o RemoveTriplesFrom(s, i + 1)

\* re.sub(r'^[$#]\s*', '', s)
RemovePromptSign(s) ==
    IF s # <<>> /\ s[1] \in {"$", "#"}
    THEN Drop(s, 1 + RunFrom(s, 2, SpaceChar))
    ELSE s

\* _clean_command
CleanCommand(raw) ==
    LET c == RemovePromptSign(RemoveTriplesFrom(RemoveFencesFrom(raw, 1), 1))
        split == SplitNewline(c)
        kept == SelectSeq(split, LAMBDA l : Strip(l) # <<>>)
        lines == [k \in 1..Len(kept) |-> Strip(kept[k])]
        gc == SelectSeq(lines, LAMBDA l : StartsWith(l, S_gcloud))
    IN  IF gc # <<>> THEN gc[1]
        ELSE IF lines # <<>> THEN lines[1] ELSE Strip(c)

\* bool(previous_error): None and the empty string are false
Truthy(e) == e # None /\ ~IsEmptyMsg(e[1])

\* _create_generation_prompt: the prompt's two variable parts, the request and
\* the PREVIOUS ATTEMPT FAILED section (None when the prompt has none)
CreateGenerationPrompt(request, prev_error) ==
    [request |-> request,
     error_section |-> IF Truthy(prev_error) THEN prev_error ELSE None]

\* mutant: the loop runs once more than max_iterations
LoopContinues_OffByOne(it, max) == it <= max

\* range(self.max_iterations) still has an element for the loop variable it
LoopContinues(it, max) == it < max

\* mutant: the 0-based loop variable is returned as 'iterations'
SuccessResult_ZeroBased(generated, it) ==
    [success |-> TRUE, command |-> generated, iterations |-> Some(it),
     last_error |-> None]

\* the dictionary returned at lines 196-201
SuccessResult(generated, it) ==
    [success |-> TRUE, command |-> generated, iterations |-> Some(it + 1),
     last_error |-> None]

\* the dictionary returned at lines 210-215
FailureResult(prev_error) ==
    [success |-> FALSE, command |-> None, iterations |-> None,
     last_error |-> prev_error]

\* What the generative model does in one call: generate_content or
\* response.text raises an Exception with str(e) = message, or the call
\* returns response.text = text.
ModelRaises(message) == [raises |-> TRUE, message |-> message, text |-> <<>>]
ModelReturns(text) == [raises |-> FALSE, message |-> Msg("", <<>>), text |-> text]

\* mutant: the except clause drops the exception's message
AttemptOutcome_MessageDropped(o) ==
    IF o.raises
    THEN [raised |-> TRUE, generated |-> None, is_valid |-> FALSE,
          error |-> Some(Msg("Error during generation", <<>>))]
    ELSE LET generated_command == CleanCommand(Strip(o.text))
             v == ValidateCommandSyntax(generated_command)
         IN  [raised |-> FALSE, generated |-> Some(generated_command),
              is_valid |-> v.is_valid,
              error |-> IF v.is_valid THEN None ELSE Some(v.message)]

\* the body of the try statement and its except clause (lines 178-208)
AttemptOutcome(o) ==
    IF o.raises
    THEN [raised |-> TRUE, generated |-> None, is_valid |-> FALSE,
          error |-> Some(o.message)]
    ELSE LET generated_command == CleanCommand(Strip(o.text))
             v == ValidateCommandSyntax(generated_command)
         IN  [raised |-> FALSE, generated |-> Some(generated_command),
              is_valid |-> v.is_valid,
              error |-> IF v.is_valid THEN None ELSE Some(v.message)]

\* the values the other programs' variables keep while one program runs
IdleGen ==
    /\ max_iterations = 0 /\ user_prompt = <<>> /\ iteration = 0
    /\ previous_error = None /\ attempts = <<>> /\ result = None
IdleVal == command = <<>> /\ syntaxResult = None /\ stringResult = None
IdleScrape == help_out = <<>> /\ scraped = None
IdleRender == spec = None /\ rendered = <<>>
IdleChoose ==
    /\ index = <<>> /\ prompt = <<>> /\ topk = 0 /\ candidates = None
    /\ printed = None
IdleScore == scoreTokens = <<>> /\ scoreCalls = <<>>
IdleParse ==
    parsePath = <<>> /\ parsed = None /\ parsedCmd = None /\ parsedCheck = None
IdleRun == partial = <<>> /\ runResult = None /\ helpResult = None
IdleBuild == indexFile = None /\ metaFile = None /\ force = FALSE /\ runs = 0
IdleSimple ==
    argvPrompt = None /\ service = None /\ action = None /\ simpleOut = None
IdleRest == IdleScore /\ IdleParse /\ IdleRun /\ IdleBuild /\ IdleSimple

(***************************************************************************)
(* generate_command as a state machine                                     *)
(***************************************************************************)
ExceptionMessages == {Msg("", <<>>), Msg("429 Resource exhausted", <<>>)}

R_ok == Join(<<S_gcloud, S_run, S_deploy, F_project \o S_eqP>>, SP)
R_fenced == S_fence \o S_bash \o NL \o Join(<<S_gcloud, S_run, S_deploy>>, SP) \o NL \o S_fence
R_badflag == Join(<<S_gcloud, S_run, S_deploy, F_bogus>>, SP)
R_badpath == Join(<<S_gcloud, S_sql, S_list>>, SP)
R_bare == S_gcloud \o NL
Responses == {R_ok, R_fenced, R_badflag, R_badpath, R_bare}

ModelOutcomes ==
    {ModelRaises(m) : m \in ExceptionMessages} \cup {ModelReturns(t) : t \in Responses}

\* gcloud with the group 'run' and the command 'run deploy'
WorldGroups ==
    (HelpArgv(<<S_run>>) :> Completed(0, HelpRun, <<>>))
    @@ (HelpArgv(<<S_run, S_deploy>>) :> Completed(0, HelpRunDeploy, <<>>))
\* the help of the group fails, the help of the command succeeds
WorldLeafOnly ==
    (HelpArgv(<<S_run>>) :> Completed(1, <<>>, E_invalid))
    @@ (HelpArgv(<<S_run, S_deploy>>) :> Completed(0, HelpRunDeploy, <<>>))
\* the help of the group times out
WorldTimeout ==
    (HelpArgv(<<S_run>>) :> Raised(E_TimeoutExpired, E_timeout))
    @@ (HelpArgv(<<S_run, S_deploy>>) :> Completed(0, HelpRunDeploy, <<>>))
\* no gcloud on the PATH: every call raises FileNotFoundError
WorldNoGcloud ==
    (HelpArgv(<<S_run>>) :> Raised(E_FileNotFoundError, E_nofile))
    @@ (HelpArgv(<<S_run, S_deploy>>) :> Raised(E_FileNotFoundError, E_nofile))

GenWorlds == {WorldGroups, WorldLeafOnly, WorldTimeout}

InitGen ==
    /\ pc = "gen_loop"
    /\ world \in GenWorlds
    /\ max_iterations \in 0..MaxIterations
    /\ user_prompt = Join(<<S_deploy, S_run>>, SP)
    /\ iteration = 0
    /\ previous_error = None
    /\ attempts = <<>>
    /\ result = None
    /\ IdleVal /\ IdleScrape /\ IdleRender /\ IdleChoose /\ IdleRest

\* one iteration of the for loop (lines 171-208)
Attempt ==
    /\ pc = "gen_loop"
    /\ LoopContinues(iteration, max_iterations)
    /\ \E o \in ModelOutcomes :
         LET p == CreateGenerationPrompt(user_prompt, previous_error)
             a == AttemptOutcome(o)
         IN  /\ attempts' = Append(attempts, [prompt |-> p, response |-> o, outcome |-> a])
             /\ iteration' = iteration + 1
             /\ IF a.is_valid
                THEN /\ pc' = "gen_done"
                     /\ result' = SuccessResult(a.generated[1], iteration)
                     /\ previous_error' = previous_error
                ELSE /\ pc' = "gen_loop"
                     /\ result' = result
                     /\ previous_error' = a.error
    /\ UNCHANGED <<world, restVars, max_iterations, user_prompt, valVars, scrapeVars,
                   renderVars, chooseVars>>

\* the loop is exhausted (lines 210-215)
ReturnFailure ==
    /\ pc = "gen_loop"
    /\ ~LoopContinues(iteration, max_iterations)
    /\ pc' = "gen_done"
    /\ result' = FailureResult(previous_error)
    /\ UNCHANGED <<world, restVars, max_iterations, user_prompt, iteration, previous_error,
                   attempts, valVars, scrapeVars, renderVars, chooseVars>>

NextGen == Attempt \/ ReturnFailure

SpecGen == InitGen /\ [][NextGen]_vars

(***************************************************************************)
(* Claims about generate_command, checked under SpecGen                    *)
(***************************************************************************)
LastAttempt == attempts[Len(attempts)]

\* what C1 says of every state
C1_Safe ==
    /\ Len(attempts) <= max_iterations
    /\ iteration = Len(attempts)
    /\ (pc = "gen_done" /\ ~result.success) =>
         /\ Len(attempts) = max_iterations
         /\ \A k \in 1..Len(attempts) : ~attempts[k].outcome.is_valid
         /\ result.command = None
         /\ attempts # <<>> =>
              /\ LastAttempt.outcome.error # None
              /\ result.last_error = LastAttempt.outcome.error

\* C1: generate_command terminates and calls the model at most max_iterations
\* times; after max_iterations attempts none of which validated it returns
\* success=False, command=None and last_error = the error of the final
\* attempt, and once it has returned it makes no further model call.
\* Termination is the variant max_iterations - iteration: it is never
\* negative, a step is always possible until the return, and every step
\* either returns or makes one model call and lowers the variant by one.
C1_TerminatesWithinMaxIterations ==
    /\ []C1_Safe
    /\ [](pc = "gen_loop" =>
            \/ LoopContinues(iteration, max_iterations)
            \/ iteration = max_iterations)
    /\ [][/\ pc = "gen_loop"
          /\ \/ pc' = "gen_done" /\ Len(attempts') <= Len(attempts) + 1
             \/ /\ iteration' = iteration + 1
                /\ Len(attempts') = Len(attempts) + 1]_vars

\* C1 witness: three attempts failed, the last two with different errors,
\* and the failure was returned
C1_Witness ==
    /\ pc = "gen_done"
    /\ Len(attempts) = 3
    /\ max_iterations = 3
    /\ ~result.success
    /\ attempts[2].outcome.error # attempts[3].outcome.error

\* C2: an exception raised in an attempt is caught: its message becomes the
\* previous error, the attempt does not validate, the loop goes on to the next
\* attempt while one is left, and generate_command still ends by returning.
C2_ExceptionCaughtAndStored ==
    /\ pc \in {"gen_loop", "gen_done"}
    /\ \A k \in 1..Len(attempts) :
         attempts[k].response.raises =>
           /\ attempts[k].outcome.error = Some(attempts[k].response.message)
           /\ ~attempts[k].outcome.is_valid
           /\ k = Len(attempts) =>
                IF pc = "gen_loop"
                THEN /\ previous_error = Some(attempts[k].response.message)
                     /\ k < max_iterations =>
                          LoopContinues(iteration, max_iterations)
                ELSE /\ ~result.success
                     /\ result.last_error = Some(attempts[k].response.message)

\* C2 witness: the first attempt raised and a second attempt was made
C2_Witness ==
    /\ Len(attempts) = 2
    /\ attempts[1].response.raises
    /\ attempts[1].response.message.text # ""
    /\ ~attempts[2].response.raises

\* C3 as claimed: the first prompt has no previous-error section and every
\* later prompt carries the error of the attempt just before it, whatever
\* its text.
C3_PromptCarriesPreviousError ==
    \A k \in 1..Len(attempts) :
        IF k = 1
        THEN attempts[k].prompt.error_section = None
        ELSE /\ attempts[k].prompt.error_section # None
             /\ attempts[k].prompt.error_section = attempts[k - 1].outcome.error

\* C4: success=True is returned only with the command that validated in the
\* attempt that returned; that attempt is the first that validated, no model
\* call follows it, and 'iterations' is its 1-based index.
C4_SuccessOnlyIfValidated ==
    /\ pc = "gen_loop" => result = None
    /\ (pc = "gen_done" /\ result.success) =>
        /\ result.iterations = Some(Len(attempts))
        /\ Len(attempts) \in 1..max_iterations
        /\ LastAttempt.outcome.is_valid
        /\ LastAttempt.outcome.generated = Some(result.command)
        /\ ValidateCommandSyntax(result.command).is_valid
        /\ \A k \in 1..(Len(attempts) - 1) : ~attempts[k].outcome.is_valid

\* C4 witness: the second attempt validated after the first did not
C4_Witness ==
    /\ pc = "gen_done"
    /\ result.success
    /\ result.iterations = Some(2)
    /\ ~attempts[1].outcome.is_valid

(***************************************************************************)
(* src/gpt5pro/main.py: run, the FLAGS scraper, validate_command_string    *)
(***************************************************************************)
\* run(cmd): (returncode, stdout, stderr)
Run(argv) ==
    LET r == Subprocess(argv)
    IN  IF r.raises
        THEN [rc |-> 1, out |-> <<>>, err |-> r.exc_type \o <<":", " ">> \o r.exc]
        ELSE [rc |-> r.returncode, out |-> r.stdout, err |-> r.stderr]

GCLOUD_WIDE_FLAGS ==
    {F_project, F_quiet, F_format, F_verbosity, F_account, F_configuration}

\* re.MULTILINE: ^ matches at position i of s
LineStart(s, i) == i = 1 \/ (i >= 2 /\ i <= Len(s) + 1 /\ s[i - 1] = "\n")

\* \b between s[i-1] and s[i]
WordBoundary(s, i) ==
    LET before == i >= 2 /\ i - 1 <= Len(s) /\ s[i - 1] \in WordChar
        after == i >= 1 /\ i <= Len(s) /\ s[i] \in WordChar
    IN  before # after

\* the position of the first newline of s at or after i, Len(s) + 1 if none
LineEnd(s, i) == i + RunFrom(s, i, Range(s) \ {"\n"})

\* re.search(r"^FLAGS\b.*?$([\s\S]+?)^\w", out, re.MULTILINE): group 1 for
\* a match that starts at p, None when there is none
FlagsBlockAt(out, p) ==
    IF ~(LineStart(out, p) /\ StartsWithAt(out, p, L_flags) /\ WordBoundary(out, p + 5))
    THEN None
    ELSE LET e == LineEnd(out, p + 5)
             stops == {q \in (e + 1)..Len(out) : LineStart(out, q) /\ out[q] \in WordChar}
         IN  IF e > Len(out) \/ stops = {}
             THEN None
             ELSE Some(SubSeq(out, e, (CHOOSE q \in stops : \A r \in stops : q <= r) - 1))

\* the leftmost match
FlagsBlock(out) ==
    LET starts == {p \in 1..Len(out) : FlagsBlockAt(out, p) # None}
    IN  IF starts = {} THEN None
        ELSE FlagsBlockAt(out, CHOOSE p \in starts : \A r \in starts : p <= r)

\* str.splitlines() for '\n' line ends
SplitLines(s) ==
    LET parts == SplitNewline(s)
    IN  IF parts[Len(parts)] = <<>> THEN Take(parts, Len(parts) - 1) ELSE parts

FlagNameChar == Lower \cup Digit \cup {"-"}

\* re.match(r"\s+(--[a-z0-9][a-z0-9\-]*)\b", s): group 1, None without a match
MatchFlag(s) ==
    LET k == LeadingRun(s, 1, SpaceChar)
        n == RunFrom(s, k + 4, FlagNameChar)
        ends == {j \in (k + 3)..(k + 3 + n) : WordBoundary(s, j + 1)}
    IN  IF /\ k >= 1
           /\ StartsWithAt(s, k + 1, <<"-", "-">>)
           /\ k + 3 <= Len(s)
           /\ s[k + 3] \in Lower \cup Digit
           /\ ends # {}
        THEN Some(SubSeq(s, k + 1, CHOOSE j \in ends : \A r \in ends : j >= r))
        ELSE None

\* the flags found in a FLAGS block (lines 314-317 and 479-482)
FlagsOfBlock(block) ==
    LET lines == SplitLines(block)
        m == [k \in 1..Len(lines) |-> MatchFlag(Strip(lines[k]))]
        hit == SelectSeq([k \in 1..Len(lines) |-> k], LAMBDA k : m[k] # None)
    IN  [j \in 1..Len(hit) |-> m[hit[j]][1]]

\* the FLAGS scraper (lines 310-317 and 477-482): the list of flags found
ScrapeFlags(out) ==
    LET b == FlagsBlock(out)
    IN  IF b = None THEN <<>> ELSE FlagsOfBlock(b[1])

\* mutant: the base command stops before the first flag only, a placeholder
\* is taken into it
BaseCommand_StopAtFlags(tokens) ==
    Take(tokens, LeadingRun(tokens, 1,
        {t \in Range(tokens) : ~StartsWith(t, <<"-", "-">>)}))

\* the base command of validate_command_string (lines 463-469)
BaseCommand(tokens) ==
    Take(tokens, LeadingRun(tokens, 1,
        {t \in Range(tokens) : ~StartsWith(t, <<"<">>) /\ ~StartsWith(t, <<"-", "-">>)}))

\* validate_command_string: (ok, message), with the help argv it ran and the
\* flags it reported unknown
ValidateCommandString(cmd_str) ==
    LET tokens == Split(cmd_str)
        base == BaseCommand(tokens)
        argv == base \o <<S_help>>
        r == Run(argv)
        flags == GCLOUD_WIDE_FLAGS \cup Range(ScrapeFlags(r.out))
        given == SelectSeq(tokens, LAMBDA t : StartsWith(t, <<"-", "-">>))
        keys == [k \in 1..Len(given) |-> BeforeFirst(given[k], "=")]
        unknown == SelectSeq(keys, LAMBDA key : key \notin flags)
    IN  IF r.rc # 0
        THEN [ok |-> FALSE,
              message |-> Msg("gcloud help failed for ",
                              <<Join(base, SP), IF r.err # <<>> THEN r.err ELSE r.out>>),
              calls |-> <<argv>>, help_ok |-> FALSE, unknown |-> {}]
        ELSE IF unknown # <<>>
        THEN [ok |-> FALSE, message |-> Msg("Unknown flags for ", <<Join(base, SP)>>),
              calls |-> <<argv>>, help_ok |-> TRUE, unknown |-> Range(unknown)]
        ELSE [ok |-> TRUE, message |-> Msg("OK", <<>>),
              calls |-> <<argv>>, help_ok |-> TRUE, unknown |-> {}]

(***************************************************************************)
(* The two validators applied to one command string                        *)
(***************************************************************************)
MaxCmdFlags == 2

\* all sequences of at most n elements of S
RECURSIVE SeqsUpTo(_, _)
SeqsUpTo(S, n) ==
    IF n = 0 THEN {<<>>}
    ELSE LET shorter == SeqsUpTo(S, n - 1)
         IN  shorter \cup {Append(s, x) : s \in shorter, x \in S}

ValPaths ==
    {<<S_run>>, <<S_run, S_deploy>>, <<S_sql, S_list>>, <<S_run, F_quiet, S_deploy>>}
ValFlagArgs == {F_region \o S_eqP, F_project \o S_eqP, F_reg, F_bogus}
ValCommands ==
    {Join(<<S_gcloud>> \o p \o f, SP) : p \in ValPaths, f \in SeqsUpTo(ValFlagArgs, MaxCmdFlags)}
ValWorlds == {WorldGroups, WorldLeafOnly, WorldTimeout, WorldNoGcloud}

InitVal ==
    /\ pc = "val"
    /\ world \in ValWorlds
    /\ command \in ValCommands
    /\ syntaxResult = None
    /\ stringResult = None
    /\ IdleGen /\ IdleScrape /\ IdleRender /\ IdleChoose /\ IdleRest

\* a call of GCloudCommandGenerator._validate_command_syntax(command)
ValidateSyntax ==
    /\ pc = "val"
    /\ syntaxResult = None
    /\ syntaxResult' = Some(ValidateCommandSyntax(command))
    /\ UNCHANGED <<pc, world, restVars, command, stringResult, genVars, scrapeVars,
                   renderVars, chooseVars>>

\* a call of validate_command_string(command)
ValidateString ==
    /\ pc = "val"
    /\ stringResult = None
    /\ stringResult' = Some(ValidateCommandString(command))
    /\ UNCHANGED <<pc, world, restVars, command, syntaxResult, genVars, scrapeVars,
                   renderVars, chooseVars>>

NextVal == ValidateSyntax \/ ValidateString

SpecVal == InitVal /\ [][NextVal]_vars

\* parts[:i] without the tokens that start with '-', joined: the command path
\* _validate_command_syntax asks help for at loop index i
PathPrefix(cmd, i) ==
    Join(SelectSeq(Take(Split(cmd), i), LAMBDA t : t[1] # "-"), SP)

\* C5 as claimed: after a help call that fails, validation tries a shorter
\* prefix of the path whose help failed.
C5_FailedHelpTriesShorterPrefix ==
    /\ syntaxResult # None =>
         LET calls == syntaxResult[1].calls
         IN  \A k \in 1..(Len(calls) - 1) :
               ~calls[k].success =>
                 /\ Len(calls[k + 1].partial_cmd) < Len(calls[k].partial_cmd)
                 /\ StartsWith(calls[k].partial_cmd, calls[k + 1].partial_cmd)
    /\ stringResult # None =>
         LET r == stringResult[1]
         IN  (~r.help_ok /\ Len(r.calls[1]) > 3) => Len(r.calls) >= 2

\* C5 amended: _validate_command_syntax asks help for the prefixes of the
\* command's tokens (flags dropped) shortest first; after a failed call the
\* next call is for a later prefix, whose path is the same or longer and
\* never shorter; the first call that succeeds is the last; when every call
\* fails the command is rejected as an invalid command structure.
\* validate_command_string makes one help call and, when it fails, rejects
\* the command without trying any other prefix.
C5_FailedHelpTriesNextPrefix ==
    /\ syntaxResult # None =>
         LET r == syntaxResult[1]
             calls == r.calls
             cmd == WithoutGcloud(command)
             n == Len(Split(cmd))
         IN  /\ \A k \in 1..Len(calls) :
                   /\ calls[k].i \in 1..n
                   /\ calls[k].partial_cmd = PathPrefix(cmd, calls[k].i)
                   /\ calls[k].success => k = Len(calls)
                   /\ k < Len(calls) =>
                        /\ calls[k + 1].i > calls[k].i
                        /\ Len(calls[k + 1].partial_cmd) >= Len(calls[k].partial_cmd)
                        /\ StartsWith(calls[k + 1].partial_cmd, calls[k].partial_cmd)
             /\ (\A k \in 1..Len(calls) : ~calls[k].success) =>
                   /\ ~r.is_valid
                   /\ {calls[k].i : k \in 1..Len(calls)}
                        = {i \in 1..n : PathPrefix(cmd, i) # <<>>}
                   /\ n >= 1 => r.message.text = "Invalid gcloud command structure: "
    /\ stringResult # None =>
         /\ Len(stringResult[1].calls) = 1
         /\ ~stringResult[1].help_ok =>
              /\ ~stringResult[1].ok
              /\ stringResult[1].message.text = "gcloud help failed for "

\* C5 witness: a help call failed and the next, for a longer path, succeeded;
\* validate_command_string's one help call failed
C5_Witness ==
    /\ syntaxResult # None
    /\ stringResult # None
    /\ ~stringResult[1].help_ok
    /\ \E k \in 1..(Len(syntaxResult[1].calls) - 1) :
         /\ ~syntaxResult[1].calls[k].success
         /\ syntaxResult[1].calls[k + 1].success
         /\ Len(syntaxResult[1].calls[k + 1].partial_cmd)
              > Len(syntaxResult[1].calls[k].partial_cmd)

\* the names of the --flags occurring in a command string
C6_FlagsIn(cmd) == {BeforeFirst(f, "=") : f \in Range(FindFlags(cmd))}

\* C6 as claimed: either validator rejects a command for its flags exactly
\* when some --flag occurring in it is not a substring of the help text the
\* command was checked against.
C6_RejectedIffFlagNotInHelp ==
    /\ syntaxResult # None =>
         LET r == syntaxResult[1]
             last == r.calls[Len(r.calls)]
             help_text == GetGcloudHelp(last.partial_cmd).help_text
         IN  (r.calls # <<>> /\ last.success) =>
               (~r.is_valid <=>
                  \E f \in C6_FlagsIn(WithoutGcloud(command)) : ~Contains(help_text, f))
    /\ stringResult # None =>
         LET r == stringResult[1]
             out == Run(r.calls[1]).out
         IN  r.help_ok =>
               (~r.ok <=> \E f \in C6_FlagsIn(command) : ~Contains(out, f))

(***************************************************************************)
(* The FLAGS scraper applied to a help text                                *)
(***************************************************************************)
MaxHelpLines == 3

\* "--quiet" in column 0 and an empty line, beside the lines above
ScrapeLines == {L_flags, L_notes, L_region, L_zone, L_text, F_quiet, <<>>}
HelpTexts == {Join(ls, NL) \o NL : ls \in SeqsUpTo(ScrapeLines, MaxHelpLines)}

InitScrape ==
    /\ pc = "scrape"
    /\ world = WorldGroups
    /\ help_out \in HelpTexts
    /\ scraped = None
    /\ IdleGen /\ IdleVal /\ IdleRender /\ IdleChoose /\ IdleRest

\* lines 310-317 of parse_help_for_command (the same code as lines 477-482 of
\* validate_command_string) on the help text help_out
Scrape ==
    /\ pc = "scrape"
    /\ scraped = None
    /\ scraped' = Some(ScrapeFlags(help_out))
    /\ UNCHANGED <<pc, world, restVars, help_out, genVars, valVars, renderVars, chooseVars>>

NextScrape == Scrape

SpecScrape == InitScrape /\ [][NextScrape]_vars

\* a section header: a line that starts in column 0 with a word character
C7_IsHeader(line) == line # <<>> /\ line[1] \in WordChar

\* the --flag that begins a line after its indentation, None if none does
C7_FlagOfLine(line) ==
    LET s == LStrip(line)
    IN  IF StartsWith(s, <<"-", "-">>) /\ Len(s) >= 3 /\ s[3] \in Lower \cup Digit
        THEN Some(Take(s, 2 + RunFrom(s, 3, FlagNameChar)))
        ELSE None

\* the flags that begin a line of the block after the first FLAGS header: the
\* lines from the header to the next section header or the end of the text
C7_FlagsAfterHeader(out) ==
    LET lines == SplitLines(out)
        headers == {h \in 1..Len(lines) : lines[h] = L_flags}
        h == CHOOSE x \in headers : \A y \in headers : x <= y
        later == {j \in (h + 1)..Len(lines) : C7_IsHeader(lines[j])}
        stop == IF later = {} THEN Len(lines) + 1
                ELSE CHOOSE x \in later : \A y \in later : x <= y
    IN  IF headers = {} THEN {}
        ELSE {C7_FlagOfLine(lines[j])[1] :
                j \in {i \in (h + 1)..(stop - 1) : C7_FlagOfLine(lines[i]) # None}}

\* C7 as claimed: the scraper extracts exactly the flags that begin a line of
\* the block following the FLAGS header, also when FLAGS is the last section.
C7_ScraperExtractsFlagsBlock ==
    scraped # None => Range(scraped[1]) = C7_FlagsAfterHeader(help_out)

(***************************************************************************)
(* src/gpt5pro/main.py: CommandSpec and render_command                     *)
(***************************************************************************)
\* "<REGION>"
P_REGION ==
    <<"<","R","E","G","I","O","N",">">>
\* "<ZONE>"
P_ZONE ==
    <<"<","Z","O","N","E",">">>
\* "<LOCATION>"
P_LOCATION ==
    <<"<","L","O","C","A","T","I","O","N",">">>
\* "<PROJECT_ID>"
P_PROJECT_ID ==
    <<"<","P","R","O","J","E","C","T","_","I","D",">">>
\* "<VALUE>"
P_VALUE ==
    <<"<","V","A","L","U","E",">">>
\* "json"
S_json ==
    <<"j","s","o","n">>
\* "ga"
S_ga ==
    <<"g","a">>
\* "SERVICE"
U_SERVICE ==
    <<"S","E","R","V","I","C","E">>
\* "JOB"
U_JOB ==
    <<"J","O","B">>
\* "REGION"
U_REGION ==
    <<"R","E","G","I","O","N">>
\* "NAME"
U_NAME ==
    <<"N","A","M","E">>

\* CommandSpec(path, release, flags, positionals, help_one_line)
CommandSpec(path, release, flags, positionals, help_one_line) ==
    [path |-> path, release |-> release, flags |-> flags,
     positionals |-> positionals, help_one_line |-> help_one_line]

\* the dictionary of lines 442-447 with its default
Placeholder(fl) ==
    CASE fl = F_region -> P_REGION
      [] fl = F_zone -> P_ZONE
      [] fl = F_location -> P_LOCATION
      [] fl = F_project -> P_PROJECT_ID
      [] OTHER -> P_VALUE

\* preferred_flags (line 438)
PreferredFlags == <<F_region, F_zone, F_location, F_project>>

\* mutant: one argument for every entry of spec.flags that is a preferred flag
RenderCommand_PerListedFlag(s) ==
    LET listed == SelectSeq(s.flags, LAMBDA fl : fl \in Range(PreferredFlags))
    IN  Join(<<S_gcloud>>
             \o (IF s.release \in {S_beta, S_alpha} THEN <<s.release>> ELSE <<>>)
             \o Split(s.path)
             \o [k \in 1..(IF Len(s.positionals) < 2 THEN Len(s.positionals) ELSE 2) |->
                   <<"<">> \o LowerStr(s.positionals[k]) \o <<">">>]
             \o [k \in 1..Len(listed) |-> listed[k] \o <<"=">> \o Placeholder(listed[k])]
             \o (IF F_format \in Range(s.flags)
                 THEN <<F_format \o <<"=">> \o S_json>> ELSE <<>>),
             SP)

\* mutant: the flags are appended before the positional placeholders
RenderCommand_FlagsFirst(s) ==
    LET supported == SelectSeq(PreferredFlags, LAMBDA fl : fl \in Range(s.flags))
        shown == Take(s.positionals, IF Len(s.positionals) < 2 THEN Len(s.positionals) ELSE 2)
    IN  Join(<<S_gcloud>>
             \o (IF s.release \in {S_beta, S_alpha} THEN <<s.release>> ELSE <<>>)
             \o Split(s.path)
             \o [k \in 1..Len(supported) |->
                   supported[k] \o <<"=">> \o Placeholder(supported[k])]
             \o (IF F_format \in Range(s.flags)
                 THEN <<F_format \o <<"=">> \o S_json>> ELSE <<>>)
             \o [k \in 1..Len(shown) |-> <<"<">> \o LowerStr(shown[k]) \o <<">">>],
             SP)

\* render_command: the command string
RenderCommand(s) ==
    LET head == <<S_gcloud>>
                \o (IF s.release \in {S_beta, S_alpha} THEN <<s.release>> ELSE <<>>)
                \o Split(s.path)
        shown == Take(s.positionals, IF Len(s.positionals) < 2 THEN Len(s.positionals) ELSE 2)
        pos == [k \in 1..Len(shown) |-> <<"<">> \o LowerStr(shown[k]) \o <<">">>]
        supported == SelectSeq(PreferredFlags, LAMBDA fl : fl \in Range(s.flags))
        pref == [k \in 1..Len(supported) |->
                   supported[k] \o <<"=">> \o Placeholder(supported[k])]
        cmd == head \o pos \o pref
        format == IF /\ F_format \in Range(s.flags)
                     /\ \A k \in 1..Len(cmd) : ~StartsWith(cmd[k], F_format)
                  THEN <<F_format \o <<"=">> \o S_json>>
                  ELSE <<>>
    IN  Join(cmd \o format, SP)

\* what render_command leaves of its argument: it only reads spec (split,
\* slice and membership tests build new objects)
SpecAfterRender(s) == s

(***************************************************************************)
(* render_command called repeatedly on one CommandSpec                     *)
(***************************************************************************)
MaxSpecFlags == 2

RenderPaths == {Join(<<S_run, S_deploy>>, SP), Join(<<S_run, S_jobs, S_list>>, SP)}
RenderReleases == {S_ga, S_beta, S_alpha}
RenderFlags == {F_region, F_zone, F_location, F_project, F_format}
RenderPositionals == {<<>>, <<U_SERVICE>>, <<U_JOB, U_REGION, U_NAME>>}
RenderSpecs ==
    {CommandSpec(p, r, f, a, <<>>) :
        p \in RenderPaths, r \in RenderReleases,
        f \in SeqsUpTo(RenderFlags, MaxSpecFlags), a \in RenderPositionals}

InitRender ==
    /\ pc = "render"
    /\ world = WorldGroups
    /\ spec \in RenderSpecs
    /\ rendered = <<>>
    /\ IdleGen /\ IdleVal /\ IdleScrape /\ IdleChoose /\ IdleRest

\* one call render_command(spec)
Render ==
    /\ pc = "render"
    /\ Len(rendered) < MaxRenders
    /\ rendered' = Append(rendered, RenderCommand(spec))
    /\ spec' = SpecAfterRender(spec)
    /\ UNCHANGED <<pc, world, restVars, genVars, valVars, scrapeVars, chooseVars>>

NextRender == Render

SpecRender == InitRender /\ [][NextRender]_vars

\* the number of places of string s where f occurs
C9_Occurrences(s, f) == Cardinality({i \in 1..Len(s) : StartsWithAt(s, i, f)})

\* C9: however often render_command is called on a CommandSpec, it returns
\* the same string and leaves the spec as it was, and the string holds each of
\* --region, --zone, --location, --project and --format at most once, also
\* when spec.flags lists a flag more than once.
C9_RenderIdempotent ==
    /\ [](\A k \in 1..Len(rendered) :
            /\ rendered[k] = rendered[1]
            /\ rendered[k] = RenderCommand(spec)
            /\ \A f \in RenderFlags :
                 /\ C9_Occurrences(rendered[k], f) <= 1
                 /\ C9_Occurrences(rendered[k], f) = 1 => f \in Range(spec.flags))
    /\ [][spec' = spec]_vars

\* C9 witness: a spec that lists --region twice was rendered twice and the
\* string holds --region
C9_Witness ==
    /\ Len(rendered) >= 2
    /\ Len(spec.flags) = 2
    /\ spec.flags[1] = F_region
    /\ spec.flags[2] = F_region
    /\ C9_Occurrences(rendered[2], F_region) = 1

(***************************************************************************)
(* src/gpt5pro/main.py: tokenize, canonicalize_tokens, ratio,              *)
(* score_candidate, choose_candidates                                      *)
(***************************************************************************)
\* "create"
S_create ==
    <<"c","r","e","a","t","e">>
\* "delete"
S_delete ==
    <<"d","e","l","e","t","e">>
\* "update"
S_update ==
    <<"u","p","d","a","t","e">>

\* VERB_SYNONYMS (lines 64-85)
VERB_SYNONYMS ==
    (<<"g","e","t">> :>
        <<"d","e","s","c","r","i","b","e">>)
    @@ (<<"s","h","o","w">> :>
        <<"d","e","s","c","r","i","b","e">>)
    @@ (<<"d","e","t","a","i","l","s">> :>
        <<"d","e","s","c","r","i","b","e">>)
    @@ (<<"d","e","s","c","r","i","b","e">> :>
        <<"d","e","s","c","r","i","b","e">>)
    @@ (<<"i","n","s","p","e","c","t">> :>
        <<"d","e","s","c","r","i","b","e">>)
    @@ (<<"f","e","t","c","h">> :>
        <<"d","e","s","c","r","i","b","e">>)
    @@ (<<"l","i","s","t">> :>
        <<"l","i","s","t">>)
    @@ (<<"l","s">> :>
        <<"l","i","s","t">>)
    @@ (<<"e","n","u","m","e","r","a","t","e">> :>
        <<"l","i","s","t">>)
    @@ (<<"c","r","e","a","t","e">> :>
        <<"c","r","e","a","t","e">>)
    @@ (<<"m","a","k","e">> :>
        <<"c","r","e","a","t","e">>)
    @@ (<<"n","e","w">> :>
        <<"c","r","e","a","t","e">>)
    @@ (<<"d","e","p","l","o","y">> :>
        <<"d","e","p","l","o","y">>)
    @@ (<<"a","p","p","l","y">> :>
        <<"u","p","d","a","t","e">>)
    @@ (<<"u","p","d","a","t","e">> :>
        <<"u","p","d","a","t","e">>)
    @@ (<<"p","a","t","c","h">> :>
        <<"u","p","d","a","t","e">>)
    @@ (<<"s","e","t">> :>
        <<"u","p","d","a","t","e">>)
    @@ (<<"d","e","l","e","t","e">> :>
        <<"d","e","l","e","t","e">>)
    @@ (<<"r","e","m","o","v","e">> :>
        <<"d","e","l","e","t","e">>)
    @@ (<<"r","m">> :>
        <<"d","e","l","e","t","e">>)

\* RESOURCE_SYNONYMS (lines 87-137)
RESOURCE_SYNONYMS ==
    (<<"c","l","o","u","d","r","u","n">> :>
        <<"r","u","n">>)
    @@ (<<"c","l","o","u","d"," ","r","u","n">> :>
        <<"r","u","n">>)
    @@ (<<"s","e","r","v","i","c","e">> :>
        <<"s","e","r","v","i","c","e","s">>)
    @@ (<<"s","e","r","v","i","c","e","s">> :>
        <<"s","e","r","v","i","c","e","s">>)
    @@ (<<"r","e","v","i","s","i","o","n">> :>
        <<"r","e","v","i","s","i","o","n","s">>)
    @@ (<<"r","e","v","i","s","i","o","n","s">> :>
        <<"r","e","v","i","s","i","o","n","s">>)
    @@ (<<"j","o","b">> :>
        <<"j","o","b","s">>)
    @@ (<<"j","o","b","s">> :>
        <<"j","o","b","s">>)
    @@ (<<"c","o","m","p","u","t","e"," ","e","n","g","i","n","e">> :>
        <<"c","o","m","p","u","t","e">>)
    @@ (<<"v","m">> :>
        <<"i","n","s","t","a","n","c","e","s">>)
    @@ (<<"v","m","s">> :>
        <<"i","n","s","t","a","n","c","e","s">>)
    @@ (<<"i","n","s","t","a","n","c","e">> :>
        <<"i","n","s","t","a","n","c","e","s">>)
    @@ (<<"i","n","s","t","a","n","c","e","s">> :>
        <<"i","n","s","t","a","n","c","e","s">>)
    @@ (<<"f","i","r","e","w","a","l","l">> :>
        <<"f","i","r","e","w","a","l","l","-","r","u","l","e","s">>)
    @@ (<<"f","i","r","e","w","a","l","l","s">> :>
        <<"f","i","r","e","w","a","l","l","-","r","u","l","e","s">>)
    @@ (<<"d","i","s","k">> :>
        <<"d","i","s","k","s">>)
    @@ (<<"d","i","s","k","s">> :>
        <<"d","i","s","k","s">>)
    @@ (<<"i","m","a","g","e">> :>
        <<"i","m","a","g","e","s">>)
    @@ (<<"i","m","a","g","e","s">> :>
        <<"i","m","a","g","e","s">>)
    @@ (<<"r","o","u","t","e","r">> :>
        <<"r","o","u","t","e","r","s">>)
    @@ (<<"r","o","u","t","e","r","s">> :>
        <<"r","o","u","t","e","r","s">>)
    @@ (<<"m","i","g">> :>
        <<"i","n","s","t","a","n","c","e","-","g","r","o","u","p","s">>)
    @@ (<<"p","r","o","j","e","c","t">> :>
        <<"p","r","o","j","e","c","t","s">>)
    @@ (<<"p","r","o","j","e","c","t","s">> :>
        <<"p","r","o","j","e","c","t","s">>)
    @@ (<<"s","e","r","v","i","c","e"," ","a","c","c","o","u","n","t">> :>
        <<"s","e","r","v","i","c","e","-","a","c","c","o","u","n","t","s">>)
    @@ (<<"s","e","r","v","i","c","e"," ","a","c","c","o","u","n","t","s">> :>
        <<"s","e","r","v","i","c","e","-","a","c","c","o","u","n","t","s">>)
    @@ (<<"i","a","m">> :>
        <<"i","a","m">>)
    @@ (<<"p","u","b","s","u","b">> :>
        <<"p","u","b","s","u","b">>)
    @@ (<<"t","o","p","i","c">> :>
        <<"t","o","p","i","c","s">>)
    @@ (<<"t","o","p","i","c","s">> :>
        <<"t","o","p","i","c","s">>)
    @@ (<<"s","u","b","s","c","r","i","p","t","i","o","n">> :>
        <<"s","u","b","s","c","r","i","p","t","i","o","n","s">>)
    @@ (<<"s","u","b","s","c","r","i","p","t","i","o","n","s">> :>
        <<"s","u","b","s","c","r","i","p","t","i","o","n","s">>)
    @@ (<<"g","c","s">> :>
        <<"s","t","o","r","a","g","e">>)
    @@ (<<"s","t","o","r","a","g","e"," ","b","u","c","k","e","t">> :>
        <<"b","u","c","k","e","t","s">>)
    @@ (<<"b","u","c","k","e","t">> :>
        <<"b","u","c","k","e","t","s">>)
    @@ (<<"b","u","c","k","e","t","s">> :>
        <<"b","u","c","k","e","t","s">>)
    @@ (<<"a","r","t","i","f","a","c","t">> :>
        <<"a","r","t","i","f","a","c","t","s">>)
    @@ (<<"a","r","t","i","f","a","c","t","s">> :>
        <<"a","r","t","i","f","a","c","t","s">>)
    @@ (<<"s","e","c","r","e","t">> :>
        <<"s","e","c","r","e","t","s">>)
    @@ (<<"s","e","c","r","e","t","s">> :>
        <<"s","e","c","r","e","t","s">>)
    @@ (<<"c","l","o","u","d"," ","b","u","i","l","d">> :>
        <<"b","u","i","l","d","s">>)
    @@ (<<"b","u","i","l","d">> :>
        <<"b","u","i","l","d","s">>)
    @@ (<<"b","u","i","l","d","s">> :>
        <<"b","u","i","l","d","s">>)

\* the characters TOKEN_SPLIT_RE = [^\w\-]+ does not split at
TokenChar == WordChar \cup {"-"}

\* tokenize: the non-empty pieces between separators, lowercased
RECURSIVE TokenizeFrom(_, _)
TokenizeFrom(text, i) ==
    IF i > Len(text) THEN <<>>
    ELSE IF text[i] \notin TokenChar THEN TokenizeFrom(text, i + 1)
    ELSE LET n == RunFrom(text, i, TokenChar)
         IN  <<LowerStr(SubSeq(text, i, i + n - 1))>> \o TokenizeFrom(text, i + n)
tokenize(text) == TokenizeFrom(text, 1)

canonicalize_tokens(tokens) ==
    [k \in 1..Len(tokens) |->
        IF tokens[k] \in DOMAIN VERB_SYNONYMS THEN VERB_SYNONYMS[tokens[k]]
        ELSE IF tokens[k] \in DOMAIN RESOURCE_SYNONYMS THEN RESOURCE_SYNONYMS[tokens[k]]
        ELSE tokens[k]]

\* difflib.SequenceMatcher: length of the common run of a from i and b from j
RECURSIVE CommonLen(_, _, _, _, _, _)
CommonLen(a, b, i, j, ahi, bhi) ==
    IF i > ahi \/ j > bhi THEN 0
    ELSE IF a[i] # b[j] THEN 0
    ELSE 1 + CommonLen(a, b, i + 1, j + 1, ahi, bhi)

\* find_longest_match on a[alo..ahi], b[blo..bhi]: the longest block, the
\* one starting earliest in a, and of those the one starting earliest in b
FindLongestMatch(a, b, alo, ahi, blo, bhi) ==
    LET len == [p \in (alo..ahi) \X (blo..bhi) |->
                   CommonLen(a, b, p[1], p[2], ahi, bhi)]
        size == IF DOMAIN len = {} THEN 0
                ELSE CHOOSE n \in {len[p] : p \in DOMAIN len} :
                         \A p \in DOMAIN len : len[p] <= n
    IN  IF size = 0 THEN [i |-> alo, j |-> blo, size |-> 0]
        ELSE LET besti == CHOOSE i \in alo..ahi :
                             /\ \E j \in blo..bhi : len[<<i, j>>] = size
                             /\ \A i2 \in alo..(i - 1) :
                                  \A j \in blo..bhi : len[<<i2, j>>] # size
                 bestj == CHOOSE j \in blo..bhi :
                             /\ len[<<besti, j>>] = size
                             /\ \A j2 \in blo..(j - 1) : len[<<besti, j2>>] # size
             IN  [i |-> besti, j |-> bestj, size |-> size]

\* get_matching_blocks: the total size of the blocks, found by taking the
\* longest match and recursing on the pieces left and right of it
RECURSIVE Matches(_, _, _, _, _, _)
Matches(a, b, alo, ahi, blo, bhi) ==
    IF alo > ahi \/ blo > bhi THEN 0
    ELSE LET m == FindLongestMatch(a, b, alo, ahi, blo, bhi)
         IN  IF m.size = 0 THEN 0
             ELSE m.size
                  + Matches(a, b, alo, m.i - 1, blo, m.j - 1)
                  + Matches(a, b, m.i + m.size, ahi, m.j + m.size, bhi)

\* ratio(a, b) = 2.0 * matches / (len(a) + len(b)), 1.0 for two empty
\* strings; kept as an exact fraction
ratio(a, b) ==
    IF Len(a) + Len(b) = 0 THEN [num |-> 1, den |-> 1]
    ELSE [num |-> 2 * Matches(a, b, 1, Len(a), 1, Len(b)), den |-> Len(a) + Len(b)]

\* verbs (line 395)
Verbs == {S_describe, S_list, S_create, S_delete, S_update, S_deploy}

\* mutant: the same verb bonus whether or not the path's verb is the prompt's
ScoreTerms_FlatVerbBonus(prompt_tokens, candidate_path) ==
    LET path_tokens == Split(candidate_path)
        prompt_verbs == Verbs \cap Range(prompt_tokens)
        path_verb == SelectSeq(path_tokens, LAMBDA t : t \in Verbs)
        pt == {t \in Range(prompt_tokens) : t \notin Verbs}
        ct == {t \in Range(path_tokens) : t \notin Verbs}
        union == Cardinality(pt \cup ct)
    IN  [verb_bonus |-> IF path_verb # <<>> /\ prompt_verbs # {} THEN 50 ELSE 0,
         jacc |-> [num |-> Cardinality(pt \cap ct),
                   den |-> IF union < 1 THEN 1 ELSE union],
         fuzzy |-> ratio(Join(prompt_tokens, SP), candidate_path)]

\* the three terms of score_candidate: verb_bonus in hundredths, jacc and
\* fuzzy as fractions
ScoreTerms(prompt_tokens, candidate_path) ==
    LET path_tokens == Split(candidate_path)
        prompt_verbs == Verbs \cap Range(prompt_tokens)
        path_verb == SelectSeq(path_tokens, LAMBDA t : t \in Verbs)
        verb_bonus ==
            IF prompt_verbs # {} /\ path_verb # <<>> /\ path_verb[1] \in prompt_verbs
            THEN 50
            ELSE IF path_verb # <<>> /\ prompt_verbs # {} THEN 35
            ELSE 0
        pt == {t \in Range(prompt_tokens) : t \notin Verbs}
        ct == {t \in Range(path_tokens) : t \notin Verbs}
        union == Cardinality(pt \cup ct)
    IN  [verb_bonus |-> verb_bonus,
         jacc |-> [num |-> Cardinality(pt \cap ct),
                   den |-> IF union < 1 THEN 1 ELSE union],
         fuzzy |-> ratio(Join(prompt_tokens, SP), candidate_path)]

\* score_candidate: 0.55 * jacc + 0.35 * fuzzy + verb_bonus as the exact
\* fraction of the three terms (the code adds them in floating point)
score_candidate(prompt_tokens, candidate_path) ==
    LET t == ScoreTerms(prompt_tokens, candidate_path)
    IN  [num |-> 55 * t.jacc.num * t.fuzzy.den
                 + 35 * t.fuzzy.num * t.jacc.den
                 + t.verb_bonus * t.jacc.den * t.fuzzy.den,
         den |-> 100 * t.jacc.den * t.fuzzy.den]

\* x < y and x = y on fractions with positive denominators
ScoreLess(x, y) == x.num * y.den < y.num * x.den
ScoreEq(x, y) == x.num * y.den = y.num * x.den

\* mutant: list.sort without reverse=True (ascending, stable)
RECURSIVE SortByScore_Ascending(_)
SortByScore_Ascending(scored) ==
    IF scored = <<>> THEN <<>>
    ELSE LET n == Len(scored)
             x == scored[n]
             front == SortByScore_Ascending(Take(scored, n - 1))
             keep == Cardinality({k \in 1..Len(front) : ~ScoreLess(x[2], front[k][2])})
         IN  Take(front, keep) \o <<x>> \o Drop(front, keep)

\* scored.sort(key=lambda x: x[1], reverse=True): descending by score,
\* entries of equal score in their original order
RECURSIVE SortByScore(_)
SortByScore(scored) ==
    IF scored = <<>> THEN <<>>
    ELSE LET n == Len(scored)
             x == scored[n]
             front == SortByScore(Take(scored, n - 1))
             keep == Cardinality({k \in 1..Len(front) : ~ScoreLess(front[k][2], x[2])})
         IN  Take(front, keep) \o <<x>> \o Drop(front, keep)

\* seq[:n]
SliceTo(seq, n) ==
    IF n >= Len(seq) THEN seq
    ELSE IF n >= 0 THEN Take(seq, n)
    ELSE IF Len(seq) + n > 0 THEN Take(seq, Len(seq) + n)
    ELSE <<>>

\* choose_candidates: the index is the dict's entries in insertion order,
\* each spec under the key spec.path
choose_candidates(idx, text, k) ==
    LET tokens == canonicalize_tokens(tokenize(text))
        scored == [n \in 1..Len(idx) |->
                      <<idx[n], score_candidate(tokens, idx[n].path)>>]
    IN  SliceTo(SortByScore(scored), k)

(***************************************************************************)
(* main: choose the candidates for a prompt and print the best             *)
(***************************************************************************)
\* "instances"
S_instances ==
    <<"i","n","s","t","a","n","c","e","s">>
\* "?"
T_none ==
    <<"?">>
\* "list run jobs"
T_list_run_jobs ==
    <<"l","i","s","t"," ","r","u","n"," ","j","o","b","s">>
\* "Deploy cloudrun!"
T_deploy ==
    <<"D","e","p","l","o","y"," ","c","l","o","u","d","r","u","n","!">>
\* "get IAM roles"
T_get_roles ==
    <<"g","e","t"," ","I","A","M"," ","r","o","l","e","s">>

\* what parse_help_for_command gives every command: sorted(GCLOUD_WIDE_FLAGS)
WideFlagsSorted ==
    <<F_account, F_configuration, F_format, F_project, F_quiet, F_verbosity>>

IndexSpecs ==
    {CommandSpec(Join(<<S_run, S_deploy>>, SP), S_ga,
                 <<F_account, F_configuration, F_format, F_project, F_quiet,
                   F_region, F_verbosity>>, <<U_SERVICE>>, <<>>),
     CommandSpec(Join(<<S_run, S_jobs, S_list>>, SP), S_beta, WideFlagsSorted, <<>>, <<>>),
     CommandSpec(Join(<<S_iam, S_roles, S_list>>, SP), S_ga, WideFlagsSorted, <<>>, <<>>),
     CommandSpec(Join(<<S_sql, S_instances, S_list>>, SP), S_alpha, <<>>, <<U_NAME>>, <<>>)}

\* the indexes: up to MaxIndex specs of distinct paths in any order
Indexes ==
    {idx \in SeqsUpTo(IndexSpecs, MaxIndex) :
        \A i, j \in 1..Len(idx) : i # j => idx[i].path # idx[j].path}

Prompts == {<<>>, T_none, T_list_run_jobs, T_deploy, T_get_roles}

InitChoose ==
    /\ pc = "main"
    /\ world = WorldGroups
    /\ index \in Indexes
    /\ prompt \in Prompts
    /\ topk \in 0..MaxTopk
    /\ candidates = None
    /\ printed = None
    /\ IdleGen /\ IdleVal /\ IdleScrape /\ IdleRender /\ IdleRest

\* main, lines 513-520: exit 1 without a prompt, exit 2 without candidates
MainChoose ==
    /\ pc = "main"
    /\ IF prompt = <<>>
       THEN pc' = "exit_1" /\ UNCHANGED candidates
       ELSE LET found == choose_candidates(index, prompt, IF topk < 1 THEN 1 ELSE topk)
            IN  /\ candidates' = Some(found)
                /\ pc' = IF found = <<>> THEN "exit_2" ELSE "main_render"
    /\ UNCHANGED <<world, restVars, index, prompt, topk, printed,
                   genVars, valVars, scrapeVars, renderVars>>

\* main, lines 523-531: render every candidate, print the first rendering
MainPrint ==
    /\ pc = "main_render"
    /\ LET found == candidates[1]
           outputs == [k \in 1..Len(found) |-> RenderCommand(found[k][1])]
       IN  printed' = Some(outputs[1])
    /\ pc' = "main_done"
    /\ UNCHANGED <<world, restVars, index, prompt, topk, candidates,
                   genVars, valVars, scrapeVars, renderVars>>

NextChoose == MainChoose \/ MainPrint

SpecChoose == InitChoose /\ [][NextChoose]_vars

\* the scores of the index entries for the prompt
C10_Scores ==
    LET tokens == canonicalize_tokens(tokenize(prompt))
    IN  [n \in 1..Len(index) |-> score_candidate(tokens, index[n].path)]

\* the place in the index of a returned spec
C10_PlaceOf(s) == CHOOSE n \in 1..Len(index) : index[n] = s

\* C10: for a non-empty index and topk >= 1, choose_candidates returns
\* min(topk, size of index) candidates in non-increasing score order, each
\* with the score of its path, the first with a score maximal over the whole
\* index and equal scores in index order; main prints the rendering of the
\* first candidate.
C10_BestCandidateEmitted ==
    (pc \in {"main_render", "main_done"} /\ index # <<>>) =>
        LET found == candidates[1]
            k == IF topk < 1 THEN 1 ELSE topk
            scores == C10_Scores
        IN  /\ Len(found) = (IF k < Len(index) THEN k ELSE Len(index))
            /\ \A i \in 1..Len(found) :
                 /\ found[i][1] \in Range(index)
                 /\ found[i][2] = scores[C10_PlaceOf(found[i][1])]
            /\ \A i \in 1..(Len(found) - 1) :
                 /\ ~ScoreLess(found[i][2], found[i + 1][2])
                 /\ ScoreEq(found[i][2], found[i + 1][2]) =>
                      C10_PlaceOf(found[i][1]) < C10_PlaceOf(found[i + 1][1])
            /\ \A n \in 1..Len(index) :
                 /\ ~ScoreLess(found[1][2], scores[n])
                 /\ ScoreEq(found[1][2], scores[n]) =>
                      C10_PlaceOf(found[1][1]) <= n
            /\ pc = "main_done" => printed = Some(RenderCommand(found[1][1]))

\* C10 witness: the second entry of a two-entry index scores strictly higher
\* than the first, was returned first of two candidates, and was printed
C10_Witness ==
    /\ pc = "main_done"
    /\ Len(index) = 2
    /\ topk = 2
    /\ Len(candidates[1]) = 2
    /\ ScoreLess(candidates[1][2][2], candidates[1][1][2])
    /\ candidates[1][1][1] = index[2]
    /\ printed = Some(RenderCommand(index[2]))

(***************************************************************************)
(* score_candidate called on several command paths for one token list     *)
(***************************************************************************)
MaxScoreCalls == 2

S_disks == <<"d","i","s","k","s">>

ScoreTokenLists == {<<S_list, S_roles>>, <<S_jobs, S_run>>, <<S_roles>>}

ScorePaths ==
    {Join(<<S_disks, S_list>>, SP), Join(<<S_iam, S_delete>>, SP), S_disks,
     Join(<<S_run, S_jobs>>, SP), Join(<<S_sql, S_jobs>>, SP),
     Join(<<S_roles, S_delete, S_list>>, SP), Join(<<S_iam, S_roles, S_list>>, SP)}

InitScore ==
    /\ pc = "score"
    /\ world = WorldGroups
    /\ scoreTokens \in ScoreTokenLists
    /\ scoreCalls = <<>>
    /\ IdleSimple
    /\ IdleGen /\ IdleVal /\ IdleScrape /\ IdleRender /\ IdleChoose /\ IdleParse
    /\ IdleRun /\ IdleBuild

\* one call score_candidate(prompt_tokens, candidate_path)
ScoreCandidate ==
    /\ pc = "score"
    /\ Len(scoreCalls) < MaxScoreCalls
    /\ \E path \in ScorePaths :
         scoreCalls' = Append(scoreCalls,
                         [candidate_path |-> path,
                          terms |-> ScoreTerms(scoreTokens, path),
                          score |-> score_candidate(scoreTokens, path)])
    /\ UNCHANGED <<pc, world, scoreTokens, genVars, simpleVars, valVars, scrapeVars,
                   renderVars, chooseVars, parseVars, runVars, buildVars>>

NextScore == ScoreCandidate

SpecScore == InitScore /\ [][NextScore]_vars

\* the verb tokens of a path, and of the scored token list
C11_PathVerbs(path) == SelectSeq(Split(path), LAMBDA t : t \in Verbs)
C11_PromptVerbs == {t \in Range(scoreTokens) : t \in Verbs}

\* the path's first verb token is a verb of the prompt
C11_VerbAgrees(path) ==
    C11_PathVerbs(path) # <<>> /\ C11_PathVerbs(path)[1] \in C11_PromptVerbs

\* the Jaccard overlap of the non-verb tokens of prompt and path
C11_Overlap(path) ==
    LET pt == Range(scoreTokens) \ Verbs
        ct == Range(Split(path)) \ Verbs
    IN  [num |-> Cardinality(pt \cap ct),
         den |-> IF pt \cup ct = {} THEN 1 ELSE Cardinality(pt \cup ct)]

\* C11: the score is 0.55 * overlap + 0.35 * fuzzy + verb bonus; of two
\* paths with equal overlap and fuzzy similarity, one whose first verb is a
\* verb of the prompt scores strictly higher than one whose verb differs or
\* that has no verb; of two paths with equal verb bonus and fuzzy similarity,
\* the one with the larger overlap scores strictly higher.
C11_ScoreIncreases ==
    \A i \in 1..Len(scoreCalls) :
      LET x == scoreCalls[i]
      IN  /\ ScoreEq(x.terms.jacc, C11_Overlap(x.candidate_path))
          /\ x.score.num * (100 * x.terms.jacc.den * x.terms.fuzzy.den)
               = x.score.den * (55 * x.terms.jacc.num * x.terms.fuzzy.den
                                + 35 * x.terms.fuzzy.num * x.terms.jacc.den
                                + x.terms.verb_bonus * x.terms.jacc.den
                                    * x.terms.fuzzy.den)
          /\ \A j \in 1..Len(scoreCalls) :
               LET y == scoreCalls[j]
               IN  /\ ( /\ ScoreEq(x.terms.jacc, y.terms.jacc)
                        /\ ScoreEq(x.terms.fuzzy, y.terms.fuzzy)
                        /\ C11_VerbAgrees(x.candidate_path)
                        /\ ~C11_VerbAgrees(y.candidate_path) )
                      => ScoreLess(y.score, x.score)
                   /\ ( /\ x.terms.verb_bonus = y.terms.verb_bonus
                        /\ ScoreEq(x.terms.fuzzy, y.terms.fuzzy)
                        /\ ScoreLess(C11_Overlap(y.candidate_path),
                                     C11_Overlap(x.candidate_path)) )
                      => ScoreLess(y.score, x.score)

\* C11 witness: for the tokens list, roles the paths "disks list" (verb
\* agrees) and "iam delete" (verb differs) were scored with equal overlap and
\* fuzzy similarity
C11_Witness ==
    /\ Len(scoreCalls) = 2
    /\ scoreTokens = <<S_list, S_roles>>
    /\ scoreCalls[1].candidate_path = Join(<<S_disks, S_list>>, SP)
    /\ scoreCalls[2].candidate_path = Join(<<S_iam, S_delete>>, SP)
    /\ ScoreEq(scoreCalls[1].terms.jacc, scoreCalls[2].terms.jacc)
    /\ ScoreEq(scoreCalls[1].terms.fuzzy, scoreCalls[2].terms.fuzzy)
    /\ ScoreLess(scoreCalls[2].score, scoreCalls[1].score)

(***************************************************************************)
(* The shape of render_command's output                                    *)
(***************************************************************************)
\* a string has no uppercase letter
C12_IsLower(s) == \A i \in 1..Len(s) : s[i] \notin Upper

\* the words the output must begin with: gcloud, the release if beta or
\* alpha, the path, a placeholder for each of the first two positionals
C12_Head(s) ==
    LET n == IF Len(s.positionals) < 2 THEN Len(s.positionals) ELSE 2
    IN  <<S_gcloud>>
        \o (IF s.release = S_beta THEN <<S_beta>>
            ELSE IF s.release = S_alpha THEN <<S_alpha>> ELSE <<>>)
        \o Split(s.path)
        \o [k \in 1..n |-> <<"<">> \o LowerStr(s.positionals[k]) \o <<">">>]

L_usage ==
    <<"U","S","A","G","E">>
\* "SYNOPSIS"
L_synopsis ==
    <<"S","Y","N","O","P","S","I","S">>
\* "gcloud "
S_gcloud_sp ==
    <<"g","c","l","o","u","d"," ">>
\* "    gcloud run deploy SERVICE [--region=REGION]"
L_usage_service ==
    <<" "," "," "," ","g","c","l","o","u","d"," ","r","u","n"," ","d","e",
      "p","l","o","y"," ","S","E","R","V","I","C","E"," ","[","-","-","r",
      "e","g","i","o","n","=","R","E","G","I","O","N","]">>
\* "    gcloud run deploy - deploy to Cloud Run"
L_about ==
    <<" "," "," "," ","g","c","l","o","u","d"," ","r","u","n"," ","d","e",
      "p","l","o","y"," ","-"," ","d","e","p","l","o","y"," ","t","o"," ",
      "C","l","o","u","d"," ","R","u","n">>
\* "ARGS"
K_ARGS ==
    <<"A","R","G","S">>
\* "AND"
K_AND ==
    <<"A","N","D">>
\* "OR"
K_OR ==
    <<"O","R">>

\* the characters of the modelled strings in code point order
CodePoints ==
    <<"\n", " ", "-", ".", "0", "1", "2", "3", "4", "5", "6", "7", "8", "9",
      "<", "=", ">",
      "A", "B", "C", "D", "E", "F", "G", "H", "I", "J", "K", "L", "M",
      "N", "O", "P", "Q", "R", "S", "T", "U", "V", "W", "X", "Y", "Z",
      "[", "]", "_",
      "a", "b", "c", "d", "e", "f", "g", "h", "i", "j", "k", "l", "m",
      "n", "o", "p", "q", "r", "s", "t", "u", "v", "w", "x", "y", "z">>
Ord(c) == CHOOSE i \in 1..Len(CodePoints) : CodePoints[i] = c

\* a < b on strings
RECURSIVE StrLess(_, _)
StrLess(a, b) ==
    IF b = <<>> THEN FALSE
    ELSE IF a = <<>> THEN TRUE
    ELSE IF a[1] = b[1] THEN StrLess(Tail(a), Tail(b))
    ELSE Ord(a[1]) < Ord(b[1])

\* sorted(S) for a set of strings
RECURSIVE Sorted(_)
Sorted(S) ==
    IF S = {} THEN <<>>
    ELSE LET least == CHOOSE x \in S : \A y \in S \ {x} : StrLess(x, y)
         IN  <<least>> \o Sorted(S \ {least})

\* re.search(r"^USAGE\b.*?$([\s\S]+?)^\w", out, re.MULTILINE): group 1 for
\* a match that starts at p, None when there is none
UsageBlockAt(out, p) ==
    IF ~(LineStart(out, p) /\ StartsWithAt(out, p, L_usage) /\ WordBoundary(out, p + 5))
    THEN None
    ELSE LET e == LineEnd(out, p + 5)
             stops == {q \in (e + 1)..Len(out) : LineStart(out, q) /\ out[q] \in WordChar}
         IN  IF e > Len(out) \/ stops = {}
             THEN None
             ELSE Some(SubSeq(out, e, (CHOOSE q \in stops : \A r \in stops : q <= r) - 1))

\* the leftmost match
UsageMatch(out) ==
    LET starts == {p \in 1..Len(out) : UsageBlockAt(out, p) # None}
    IN  IF starts = {} THEN None
        ELSE UsageBlockAt(out, CHOOSE p \in starts : \A r \in starts : p <= r)

\* usage_block (lines 281-290): group 1 of the match, else the first line
\* whose strip starts with "gcloud ", else the empty string
UsageBlockOf(out) ==
    LET m == UsageMatch(out)
        lines == SplitLines(out)
        hits == {k \in 1..Len(lines) : StartsWith(Strip(lines[k]), S_gcloud_sp)}
    IN  IF m # None THEN m[1]
        ELSE IF hits = {} THEN <<>>
        ELSE lines[CHOOSE k \in hits : \A r \in hits : k <= r]

\* s.split(sep, 1)[-1]: what follows the first sep in s, s itself without sep
AfterFirst(s, sep) ==
    LET at == {i \in 1..(Len(s) - Len(sep) + 1) : StartsWithAt(s, i, sep)}
    IN  IF at = {} THEN s
        ELSE Drop(s, (CHOOSE i \in at : \A r \in at : i <= r) + Len(sep) - 1)

PlaceholderChar == Upper \cup Digit \cup {"_", "-"}

\* re.findall(r"\b[A-Z][A-Z0-9_\-]*\b", s), scanning from position i
RECURSIVE FindPlaceholdersFrom(_, _)
FindPlaceholdersFrom(s, i) ==
    LET starts == {j \in i..Len(s) : WordBoundary(s, j) /\ s[j] \in Upper}
    IN  IF starts = {} THEN <<>>
        ELSE LET p == CHOOSE j \in starts : \A r \in starts : j <= r
                 n == RunFrom(s, p, PlaceholderChar)
                 ends == {j \in p..(p + n - 1) : WordBoundary(s, j + 1)}
             IN  IF ends = {} THEN FindPlaceholdersFrom(s, p + 1)
                 ELSE LET e == CHOOSE j \in ends : \A r \in ends : j >= r
                      IN  <<SubSeq(s, p, e)>> \o FindPlaceholdersFrom(s, e + 1)

\* the keywords filtered out at line 302
UsageKeywords == {L_usage, L_flags, K_ARGS, K_AND, K_OR}

\* de-duplication that keeps the first occurrences (lines 306-307)
Dedup(seq) ==
    LET first == SelectSeq([k \in 1..Len(seq) |-> k],
                           LAMBDA k : \A j \in 1..(k - 1) : seq[j] # seq[k])
    IN  [n \in 1..Len(first) |-> seq[first[n]]]

\* usage_pos (lines 280-307)
UsagePositionals(out, path_tokens) ==
    LET usage_block == UsageBlockOf(out)
        cmd_prefix == S_gcloud_sp \o Join(path_tokens, SP)
        usage_tail == IF Contains(usage_block, cmd_prefix)
                      THEN AfterFirst(usage_block, cmd_prefix)
                      ELSE usage_block
    IN  IF usage_block = <<>> THEN <<>>
        ELSE Dedup(SelectSeq(FindPlaceholdersFrom(usage_tail, 1),
                             LAMBDA tok : tok \notin UsageKeywords))

\* help_one_line (lines 272-277)
HelpOneLine(out) ==
    LET lines == SplitLines(out)
        hits == {k \in 1..Len(lines) :
                    /\ Strip(lines[k]) # <<>>
                    /\ ~StartsWith(Strip(lines[k]), L_name)
                    /\ ~StartsWith(Strip(lines[k]), L_synopsis)
                    /\ ~StartsWith(Strip(lines[k]), L_usage)}
    IN  IF hits = {} THEN <<>>
        ELSE Strip(lines[CHOOSE k \in hits : \A r \in hits : k <= r])

\* the help call that decides the release (lines 256-266): ga first, then
\* beta, then alpha; rc stays non-zero when all three fail
ReleaseHelp(path_tokens) ==
    LET ga == Run(<<S_gcloud>> \o path_tokens \o <<S_help>>)
        beta == Run(<<S_gcloud, S_beta>> \o path_tokens \o <<S_help>>)
        alpha == Run(<<S_gcloud, S_alpha>> \o path_tokens \o <<S_help>>)
    IN  IF ga.rc = 0 THEN [rc |-> 0, release |-> S_ga, out |-> ga.out]
        ELSE IF beta.rc = 0 THEN [rc |-> 0, release |-> S_beta, out |-> beta.out]
        ELSE IF alpha.rc = 0 THEN [rc |-> 0, release |-> S_alpha, out |-> alpha.out]
        ELSE [rc |-> ga.rc, release |-> S_ga, out |-> ga.out]

\* parse_help_for_command
ParseHelpForCommand(path_tokens) ==
    LET h == ReleaseHelp(path_tokens)
    IN  IF h.rc # 0
        THEN CommandSpec(Join(path_tokens, SP), h.release, <<>>, <<>>, <<>>)
        ELSE CommandSpec(Join(path_tokens, SP), h.release,
                         Sorted(Range(ScrapeFlags(h.out)) \cup GCLOUD_WIDE_FLAGS),
                         UsagePositionals(h.out, path_tokens),
                         HelpOneLine(h.out))

(***************************************************************************)
(* parse_help_for_command, then render_command and validate_command_string *)
(* on its result (main with --validate)                                    *)
(***************************************************************************)
MaxParseLines == 3

ParseLines == {L_about, L_usage, L_usage_service, L_flags, L_region, L_notes}
ParseHelpTexts == {Join(ls, NL) \o NL : ls \in SeqsUpTo(ParseLines, MaxParseLines)}

\* gcloud knows the command at one release level only, or its help times out
HelpAtLevel(path, level, text) ==
    (<<S_gcloud>> \o level \o path \o <<S_help>>) :> Completed(0, text, <<>>)
ParseWorlds(path) ==
    {HelpAtLevel(path, level, text) :
        level \in {<<>>, <<S_beta>>, <<S_alpha>>}, text \in ParseHelpTexts}
    \cup {HelpArgv(path) :> Raised(E_TimeoutExpired, E_timeout)}

InitParse ==
    /\ pc = "parse"
    /\ parsePath = <<S_run, S_deploy>>
    /\ world \in ParseWorlds(parsePath)
    /\ parsed = None
    /\ parsedCmd = None
    /\ parsedCheck = None
    /\ IdleSimple
    /\ IdleGen /\ IdleVal /\ IdleScrape /\ IdleRender /\ IdleChoose /\ IdleScore
    /\ IdleRun /\ IdleBuild

\* spec = parse_help_for_command(tokens)
ParseHelp ==
    /\ pc = "parse"
    /\ parsed' = Some(ParseHelpForCommand(parsePath))
    /\ pc' = "parsed"
    /\ UNCHANGED <<world, parsePath, parsedCmd, parsedCheck, scoreVars,
                   runVars, buildVars, genVars, simpleVars, valVars, scrapeVars, renderVars,
                   chooseVars>>

\* cmd = render_command(spec)
RenderParsed ==
    /\ pc = "parsed"
    /\ parsedCmd' = Some(RenderCommand(parsed[1]))
    /\ pc' = "rendered"
    /\ UNCHANGED <<world, parsePath, parsed, parsedCheck, scoreVars,
                   runVars, buildVars, genVars, simpleVars, valVars, scrapeVars, renderVars,
                   chooseVars>>

\* ok, msg = validate_command_string(cmd)
ValidateRendered ==
    /\ pc = "rendered"
    /\ parsedCheck' = Some(ValidateCommandString(parsedCmd[1]))
    /\ pc' = "validated"
    /\ UNCHANGED <<world, parsePath, parsed, parsedCmd, scoreVars,
                   runVars, buildVars, genVars, simpleVars, valVars, scrapeVars, renderVars,
                   chooseVars>>

NextParse == ParseHelp \/ RenderParsed \/ ValidateRendered

SpecParse == InitParse /\ [][NextParse]_vars


\* C13: every CommandSpec parse_help_for_command returns, whether or not the
\* help call succeeded, holds all wide flags, and validate_command_string
\* never reports a wide flag as unknown.
C13_WideFlagsAlwaysAccepted ==
    /\ parsed # None => GCLOUD_WIDE_FLAGS \subseteq Range(parsed[1].flags)
    /\ parsedCheck # None => parsedCheck[1].unknown \cap GCLOUD_WIDE_FLAGS = {}

(***************************************************************************)
(* run and _get_gcloud_help on one help call                               *)
(***************************************************************************)
\* "KeyboardInterrupt"
E_KeyboardInterrupt ==
    <<"K","e","y","b","o","a","r","d","I","n","t","e","r","r","u","p","t">>

\* mutant: except subprocess.TimeoutExpired
CaughtByExcept_TimeoutOnly(name) == name = E_TimeoutExpired

\* `except Exception` catches the exception classes derived from Exception;
\* KeyboardInterrupt derives from BaseException only
CaughtByExcept(name) == name \in {E_TimeoutExpired, E_FileNotFoundError}

\* the outcomes of the child process: exit statuses with and without
\* output, the timeout, the missing executable, an interrupt by the user
RunOutcomes ==
    {Completed(rc, out, err) :
        rc \in {0, 1, 2}, out \in {<<>>, HelpRun}, err \in {<<>>, E_invalid}}
    \cup {Raised(E_TimeoutExpired, E_timeout), Raised(E_FileNotFoundError, E_nofile),
          Raised(E_TimeoutExpired, <<>>), Raised(E_KeyboardInterrupt, <<>>)}

RunPartials == {S_run, Join(<<S_run, S_deploy>>, SP), Join(<<S_sql, S_list>>, SP)}

InitRun ==
    /\ pc = "call"
    /\ partial \in RunPartials
    /\ \E o \in RunOutcomes : world = (HelpArgv(Split(partial)) :> o)
    /\ runResult = None
    /\ helpResult = None
    /\ IdleSimple
    /\ IdleGen /\ IdleVal /\ IdleScrape /\ IdleRender /\ IdleChoose /\ IdleScore
    /\ IdleParse /\ IdleBuild

\* run(["gcloud", ..., "--help"]): the value returned, or the exception
\* leaving run when the except clause does not catch it
CallRun ==
    /\ pc = "call"
    /\ runResult = None
    /\ LET argv == HelpArgv(Split(partial))
           o == Subprocess(argv)
       IN  IF o.raises /\ ~CaughtByExcept(o.exc_type)
           THEN pc' = "propagated" /\ UNCHANGED runResult
           ELSE runResult' = Some(Run(argv)) /\ UNCHANGED pc
    /\ UNCHANGED <<world, partial, helpResult, scoreVars, parseVars, buildVars,
                   genVars, simpleVars, valVars, scrapeVars, renderVars, chooseVars>>

\* _get_gcloud_help(partial_command), with the same except clause
CallGetGcloudHelp ==
    /\ pc = "call"
    /\ helpResult = None
    /\ LET o == Subprocess(HelpArgv(Split(partial)))
       IN  IF o.raises /\ ~CaughtByExcept(o.exc_type)
           THEN pc' = "propagated" /\ UNCHANGED helpResult
           ELSE helpResult' = Some(GetGcloudHelp(partial)) /\ UNCHANGED pc
    /\ UNCHANGED <<world, partial, runResult, scoreVars, parseVars, buildVars,
                   genVars, simpleVars, valVars, scrapeVars, renderVars, chooseVars>>

NextRun == CallRun \/ CallGetGcloudHelp

SpecRun == InitRun /\ [][NextRun]_vars

\* the outcome of the child process of the modelled call
C14_Outcome == world[HelpArgv(Split(partial))]

\* the call failed: it timed out or the executable is missing
C14_CallFailed ==
    C14_Outcome.raises /\ C14_Outcome.exc_type \in {E_TimeoutExpired, E_FileNotFoundError}

\* C14: a subprocess call that fails by timeout or missing executable never
\* leaves run or _get_gcloud_help as an exception: run returns (1, "",
\* "<type>: <text>") and _get_gcloud_help returns (False, text); a call that
\* completes gives run its exit status, stdout and stderr unchanged and
\* _get_gcloud_help (status = 0, stdout + stderr).
C14_FailuresBecomeValues ==
    /\ C14_CallFailed => pc # "propagated"
    /\ ~C14_Outcome.raises => pc # "propagated"
    /\ runResult # None =>
         IF C14_Outcome.raises
         THEN runResult[1] = [rc |-> 1, out |-> <<>>,
                              err |-> C14_Outcome.exc_type \o <<":", " ">>
                                      \o C14_Outcome.exc]
         ELSE runResult[1] = [rc |-> C14_Outcome.returncode,
                              out |-> C14_Outcome.stdout,
                              err |-> C14_Outcome.stderr]
    /\ helpResult # None =>
         IF C14_Outcome.raises
         THEN helpResult[1] = [success |-> FALSE, help_text |-> C14_Outcome.exc]
         ELSE helpResult[1] = [success |-> C14_Outcome.returncode = 0,
                               help_text |-> C14_Outcome.stdout \o C14_Outcome.stderr]

\* C14 witness: the executable is missing and both functions returned their
\* failure values
C14_Witness ==
    /\ C14_Outcome = Raised(E_FileNotFoundError, E_nofile)
    /\ runResult # None
    /\ runResult[1].rc = 1
    /\ helpResult # None
    /\ ~helpResult[1].success
    /\ pc = "call"

(***************************************************************************)
(* src/gpt5pro/main.py: discover_command_list, gcloud_info_sdk_root,       *)
(* build_index                                                             *)
(***************************************************************************)
\* "meta"
S_meta ==
    <<"m","e","t","a">>
\* "list-commands"
S_list_commands ==
    <<"l","i","s","t","-","c","o","m","m","a","n","d","s">>
\* "info"
S_info ==
    <<"i","n","f","o">>
\* "--format=value(installation.sdk_root)"
S_sdk_root_format ==
    <<"-","-","f","o","r","m","a","t","=","v","a","l","u","e","(","i","n",
      "s","t","a","l","l","a","t","i","o","n",".","s","d","k","_","r","o",
      "o","t",")">>
\* "GROUPS"
L_groups ==
    <<"G","R","O","U","P","S">>
\* "COMMANDS"
L_commands ==
    <<"C","O","M","M","A","N","D","S">>
\* "gcloud run deploy"
L_cmd_run_deploy ==
    <<"g","c","l","o","u","d"," ","r","u","n"," ","d","e","p","l","o","y">>
\* "gcloud sql list"
L_cmd_sql_list ==
    <<"g","c","l","o","u","d"," ","s","q","l"," ","l","i","s","t">>
\* "  gcloud iam roles list"
L_cmd_iam_roles_list ==
    <<" "," ","g","c","l","o","u","d"," ","i","a","m"," ","r","o","l","e",
      "s"," ","l","i","s","t">>
\* "gcloud beta run jobs list"
L_cmd_beta_run_jobs_list ==
    <<"g","c","l","o","u","d"," ","b","e","t","a"," ","r","u","n"," ","j",
      "o","b","s"," ","l","i","s","t">>
\* "     run         Manage Cloud Run."
L_group_run ==
    <<" "," "," "," "," ","r","u","n"," "," "," "," "," "," "," "," "," ",
      "M","a","n","a","g","e"," ","C","l","o","u","d"," ","R","u","n",".">>
\* "     sql         Manage Cloud SQL."
L_group_sql ==
    <<" "," "," "," "," ","s","q","l"," "," "," "," "," "," "," "," "," ",
      "M","a","n","a","g","e"," ","C","l","o","u","d"," ","S","Q","L",".">>
\* "     deploy      Deploy to Cloud Run."
L_command_deploy ==
    <<" "," "," "," "," ","d","e","p","l","o","y"," "," "," "," "," "," ",
      "D","e","p","l","o","y"," ","t","o"," ","C","l","o","u","d"," ","R",
      "u","n",".">>
\* "     list        List instances."
L_command_list ==
    <<" "," "," "," "," ","l","i","s","t"," "," "," "," "," "," "," "," ",
      "L","i","s","t"," ","i","n","s","t","a","n","c","e","s",".">>
\* "/opt/sdk"
L_sdk_root ==
    <<"/","o","p","t","/","s","d","k">>

\* PRIORITY_PREFIXES (lines 348-350)
PRIORITY_PREFIXES ==
    {<<"r","u","n"," ">>,
     <<"c","o","m","p","u","t","e"," ">>,
     <<"p","r","o","j","e","c","t","s"," ">>,
     <<"i","a","m"," ">>,
     <<"p","u","b","s","u","b"," ">>,
     <<"s","t","o","r","a","g","e"," ">>,
     <<"s","e","c","r","e","t","s"," ">>,
     <<"a","r","t","i","f","a","c","t","s"," ">>,
     <<"s","e","r","v","i","c","e","s"," ">>,
     <<"c","o","n","t","a","i","n","e","r"," ">>,
     <<"b","u","i","l","d","s"," ">>}

\* str.rstrip()
RStrip(s) == Take(s, TrailingKeep(s, Len(s)))

\* the command list of `gcloud meta list-commands` (lines 184-195): of every
\* line that starts with "gcloud " after strip, the words after the first
ListedCommands(out) ==
    LET lines == SplitLines(out)
        kept == SelectSeq(lines, LAMBDA l : StartsWith(Strip(l), S_gcloud_sp))
    IN  Sorted({Join(Tail(Split(Strip(kept[k]))), SP) : k \in 1..Len(kept)})

GroupNameChar == Lower \cup Digit \cup {"-"}

\* re.match(r"\s+([a-z0-9\-]+)\s+.*", line): group 1, None without a match
MatchName(line) ==
    LET k == LeadingRun(line, 1, SpaceChar)
        n == RunFrom(line, k + 1, GroupNameChar)
    IN  IF k >= 1 /\ n >= 1 /\ k + n + 1 <= Len(line) /\ line[k + n + 1] \in SpaceChar
        THEN Some(SubSeq(line, k + 1, k + n))
        ELSE None

\* parse_groups_and_commands (lines 199-219), from line k on in a section
RECURSIVE GroupsAndCommandsFrom(_, _, _)
GroupsAndCommandsFrom(lines, k, section) ==
    IF k > Len(lines) THEN [groups |-> <<>>, commands |-> <<>>]
    ELSE LET line == RStrip(lines[k])
             m == MatchName(line)
         IN  IF line = <<>> THEN GroupsAndCommandsFrom(lines, k + 1, section)
             ELSE IF Strip(line) = L_groups
             THEN GroupsAndCommandsFrom(lines, k + 1, "groups")
             ELSE IF Strip(line) = L_commands
             THEN GroupsAndCommandsFrom(lines, k + 1, "commands")
             ELSE LET rest == GroupsAndCommandsFrom(lines, k + 1, section)
                  IN  IF section = "groups" /\ m # None
                      THEN [rest EXCEPT !.groups = <<m[1]>> \o @]
                      ELSE IF section = "commands" /\ m # None
                      THEN [rest EXCEPT !.commands = <<m[1]>> \o @]
                      ELSE rest
ParseGroupsAndCommands(help_text) ==
    GroupsAndCommandsFrom(SplitLines(help_text), 1, "none")

\* sum(seqs, [])
RECURSIVE Concat(_)
Concat(seqs) == IF seqs = <<>> THEN <<>> ELSE seqs[1] \o Concat(Tail(seqs))

\* walk(prefix) (lines 224-236): the leaf commands found below prefix; the
\* visited set only spares repeated calls, the result is made a set
RECURSIVE Walk(_)
Walk(prefix) ==
    LET r == Run(<<S_gcloud>> \o prefix \o <<S_help>>)
        gc == ParseGroupsAndCommands(r.out)
    IN  IF r.rc # 0 THEN <<>>
        ELSE Concat([k \in 1..Len(gc.groups) |-> Walk(Append(prefix, gc.groups[k]))])
             \o [k \in 1..Len(gc.commands) |->
                   Join(Append(prefix, gc.commands[k]), SP)]

\* discover_command_list
DiscoverCommandList ==
    LET meta == Run(<<S_gcloud, S_meta, S_list_commands>>)
        root == Run(<<S_gcloud, S_help>>)
        root_groups == SelectSeq(ParseGroupsAndCommands(root.out).groups,
                                 LAMBDA g : g \notin {S_alpha, S_beta})
    IN  IF meta.rc = 0 /\ Strip(meta.out) # <<>> THEN ListedCommands(meta.out)
        ELSE IF root.rc # 0 THEN <<>>
        ELSE Sorted(Range(Concat([k \in 1..Len(root_groups) |->
                                     Walk(<<root_groups[k]>>)])))

\* gcloud_info_sdk_root
GcloudInfoSdkRoot ==
    LET r == Run(<<S_gcloud, S_sdk_root_format, S_info>>)
    IN  IF r.rc = 0 /\ Strip(r.out) # <<>> THEN Some(Strip(r.out)) ELSE None

\* prioritized (line 352): the paths that start with a priority prefix
Prioritized(paths) ==
    SelectSeq(paths, LAMBDA p : \E pre \in PRIORITY_PREFIXES : StartsWith(p, pre))

\* the index build_index builds (lines 355-364): the specs of the
\* prioritized paths in their order
BuiltIndex(paths) ==
    LET prioritized == Prioritized(paths)
    IN  [k \in 1..Len(prioritized) |-> ParseHelpForCommand(Split(prioritized[k]))]

(***************************************************************************)
(* main started repeatedly: build_index, then choose_candidates            *)
(***************************************************************************)
MaxRuns == 2

\* the help text every command of these worlds has
HelpAny == Join(<<L_name, L_about>>, NL) \o NL

HelpFor(paths) == [a \in {HelpArgv(Split(p)) : p \in paths} |-> Completed(0, HelpAny, <<>>)]

P_run_deploy == Join(<<S_run, S_deploy>>, SP)
P_sql_list == Join(<<S_sql, S_list>>, SP)
P_iam_roles_list == Join(<<S_iam, S_roles, S_list>>, SP)

\* gcloud lists its commands
WorldListed(lines) ==
    (<<S_gcloud, S_meta, S_list_commands>> :> Completed(0, Join(lines, NL) \o NL, <<>>))
    @@ (<<S_gcloud, S_sdk_root_format, S_info>> :> Completed(0, L_sdk_root \o NL, <<>>))
    @@ HelpFor({P_run_deploy, P_sql_list, P_iam_roles_list})

\* gcloud has no meta list-commands; its help tree has the groups run and sql
WorldCrawled ==
    (<<S_gcloud, S_help>> :>
        Completed(0, Join(<<L_name, L_groups, L_group_run, L_group_sql>>, NL) \o NL, <<>>))
    @@ (<<S_gcloud, S_run, S_help>> :>
        Completed(0, Join(<<L_name, L_commands, L_command_deploy>>, NL) \o NL, <<>>))
    @@ (<<S_gcloud, S_sql, S_help>> :>
        Completed(0, Join(<<L_name, L_commands, L_command_list>>, NL) \o NL, <<>>))
    @@ HelpFor({P_run_deploy, P_sql_list})

IndexWorlds ==
    {WorldListed(<<L_cmd_run_deploy, L_cmd_sql_list>>),
     WorldListed(<<L_cmd_run_deploy, L_cmd_iam_roles_list, <<>>, L_text>>),
     WorldListed(<<L_cmd_sql_list>>),
     WorldListed(<<L_cmd_beta_run_jobs_list, L_cmd_run_deploy>>),
     WorldCrawled,
     WorldNoGcloud}

IndexPrompts == {P_run_deploy, P_sql_list}
IndexTopks == {1, 3}

InitIndex ==
    /\ pc = "main_build"
    /\ world \in IndexWorlds
    /\ indexFile = None
    /\ metaFile = None
    /\ force \in BOOLEAN
    /\ runs = 1
    /\ index = <<>>
    /\ prompt \in IndexPrompts
    /\ topk \in IndexTopks
    /\ candidates = None
    /\ printed = None
    /\ IdleSimple
    /\ IdleGen /\ IdleVal /\ IdleScrape /\ IdleRender /\ IdleScore /\ IdleParse
    /\ IdleRun

\* main, line 511: idx = build_index(force=args.reindex)
MainBuildIndex ==
    /\ pc = "main_build"
    /\ IF indexFile # None /\ ~force
       THEN /\ index' = indexFile[1]
            /\ pc' = "main_choose"
            /\ UNCHANGED <<indexFile, metaFile>>
       ELSE LET paths == DiscoverCommandList
                built == BuiltIndex(paths)
            IN  IF paths = <<>>
                THEN pc' = "exit_2" /\ UNCHANGED <<index, indexFile, metaFile>>
                ELSE /\ index' = built
                     /\ indexFile' = Some(built)
                     /\ metaFile' = Some([sdk_root |-> GcloudInfoSdkRoot,
                                          commands_indexed |-> Len(built)])
                     /\ pc' = "main_choose"
    /\ UNCHANGED <<world, force, runs, prompt, topk, candidates, printed,
                   scoreVars, parseVars, runVars, genVars, simpleVars, valVars, scrapeVars,
                   renderVars>>

\* main, lines 513-520, on the index just built or loaded
MainChooseIndexed ==
    /\ pc = "main_choose"
    /\ LET found == choose_candidates(index, prompt, IF topk < 1 THEN 1 ELSE topk)
       IN  /\ candidates' = Some(found)
           /\ pc' = IF found = <<>> THEN "exit_2" ELSE "main_chosen"
    /\ UNCHANGED <<world, index, prompt, topk, printed, buildVars,
                   scoreVars, parseVars, runVars, genVars, simpleVars, valVars, scrapeVars,
                   renderVars>>

\* the program is started again with other arguments; the cache files stay
StartAgain ==
    /\ pc \in {"main_chosen", "exit_2"}
    /\ runs < MaxRuns
    /\ runs' = runs + 1
    /\ force' \in BOOLEAN
    /\ prompt' \in IndexPrompts
    /\ topk' \in IndexTopks
    /\ index' = <<>>
    /\ candidates' = None
    /\ pc' = "main_build"
    /\ UNCHANGED <<world, indexFile, metaFile, printed,
                   scoreVars, parseVars, runVars, genVars, simpleVars, valVars, scrapeVars,
                   renderVars>>

NextIndex == MainBuildIndex \/ MainChooseIndexed \/ StartAgain

SpecIndex == InitIndex /\ [][NextIndex]_vars

\* C15: a command path that discovery found is not excluded from the
\* candidates: when a prompt asks for it by its very words and topk is at
\* least the number of discovered commands, choose_candidates returns it.
C15_DiscoveredPathReturned ==
    (pc = "main_chosen" /\ prompt \in Range(DiscoverCommandList)
        /\ topk >= Len(DiscoverCommandList))
    => \E n \in 1..Len(candidates[1]) : candidates[1][n][1].path = prompt

\* ---- the template generator of src/gpt5pro/simplified/main.py ----

N_cloud_run == <<"c","l","o","u","d","_","r","u","n">>
N_gke == <<"g","k","e">>
N_compute == <<"c","o","m","p","u","t","e">>
N_cloud_sql == <<"c","l","o","u","d","_","s","q","l">>
N_storage == <<"s","t","o","r","a","g","e">>
N_iam == <<"i","a","m">>
N_describe == <<"d","e","s","c","r","i","b","e">>
N_list == <<"l","i","s","t">>
N_logs_read == <<"l","o","g","s","_","r","e","a","d">>
N_logs_tail == <<"l","o","g","s","_","t","a","i","l">>
N_revisions_list == <<"r","e","v","i","s","i","o","n","s","_","l","i","s","t">>
N_revisions_describe == <<"r","e","v","i","s","i","o","n","s","_","d","e","s","c","r","i",
      "b","e">>
N_policy == <<"p","o","l","i","c","y">>

\* TEMPLATES, in the order of the dict: one record per key (service, action)
TEMPLATES ==
    <<[service |-> N_cloud_run, action |-> N_describe, template |->
        \* "gcloud run services describe SERVICE_NAME --project=PROJECT_ID --region=REGION --format=yaml"
        <<"g","c","l","o","u","d"," ","r","u","n"," ","s","e","r","v","i",
          "c","e","s"," ","d","e","s","c","r","i","b","e"," ","S","E","R",
          "V","I","C","E","_","N","A","M","E"," ","-","-","p","r","o","j",
          "e","c","t","=","P","R","O","J","E","C","T","_","I","D"," ","-",
          "-","r","e","g","i","o","n","=","R","E","G","I","O","N"," ","-",
          "-","f","o","r","m","a","t","=","y","a","m","l">>],
      [service |-> N_cloud_run, action |-> N_list, template |->
        \* "gcloud run services list --project=PROJECT_ID --region=REGION"
        <<"g","c","l","o","u","d"," ","r","u","n"," ","s","e","r","v","i",
          "c","e","s"," ","l","i","s","t"," ","-","-","p","r","o","j","e",
          "c","t","=","P","R","O","J","E","C","T","_","I","D"," ","-","-",
          "r","e","g","i","o","n","=","R","E","G","I","O","N">>],
      [service |-> N_cloud_run, action |-> N_logs_read, template |->
        \* "gcloud run services logs read SERVICE_NAME --project=PROJECT_ID --limit=50"
        <<"g","c","l","o","u","d"," ","r","u","n"," ","s","e","r","v","i",
          "c","e","s"," ","l","o","g","s"," ","r","e","a","d"," ","S","E",
          "R","V","I","C","E","_","N","A","M","E"," ","-","-","p","r","o",
          "j","e","c","t","=","P","R","O","J","E","C","T","_","I","D"," ",
          "-","-","l","i","m","i","t","=","5","0">>],
      [service |-> N_cloud_run, action |-> N_logs_tail, template |->
        \* "gcloud beta run services logs tail SERVICE_NAME --project=PROJECT_ID"
        <<"g","c","l","o","u","d"," ","b","e","t","a"," ","r","u","n"," ",
          "s","e","r","v","i","c","e","s"," ","l","o","g","s"," ","t","a",
          "i","l"," ","S","E","R","V","I","C","E","_","N","A","M","E"," ",
          "-","-","p","r","o","j","e","c","t","=","P","R","O","J","E","C",
          "T","_","I","D">>],
      [service |-> N_cloud_run, action |-> N_revisions_list, template |->
        \* "gcloud run revisions list --service=SERVICE_NAME --region=REGION --project=PROJECT_ID"
        <<"g","c","l","o","u","d"," ","r","u","n"," ","r","e","v","i","s",
          "i","o","n","s"," ","l","i","s","t"," ","-","-","s","e","r","v",
          "i","c","e","=","S","E","R","V","I","C","E","_","N","A","M","E",
          " ","-","-","r","e","g","i","o","n","=","R","E","G","I","O","N",
          " ","-","-","p","r","o","j","e","c","t","=","P","R","O","J","E",
          "C","T","_","I","D">>],
      [service |-> N_cloud_run, action |-> N_revisions_describe, template |->
        \* "gcloud run revisions describe REVISION_NAME --region=REGION --project=PROJECT_ID --format=yaml"
        <<"g","c","l","o","u","d"," ","r","u","n"," ","r","e","v","i","s",
          "i","o","n","s"," ","d","e","s","c","r","i","b","e"," ","R","E",
          "V","I","S","I","O","N","_","N","A","M","E"," ","-","-","r","e",
          "g","i","o","n","=","R","E","G","I","O","N"," ","-","-","p","r",
          "o","j","e","c","t","=","P","R","O","J","E","C","T","_","I","D",
          " ","-","-","f","o","r","m","a","t","=","y","a","m","l">>],
      [service |-> N_gke, action |-> N_describe, template |->
        \* "gcloud container clusters describe CLUSTER_NAME --location=LOCATION --project=PROJECT_ID"
        <<"g","c","l","o","u","d"," ","c","o","n","t","a","i","n","e","r",
          " ","c","l","u","s","t","e","r","s"," ","d","e","s","c","r","i",
          "b","e"," ","C","L","U","S","T","E","R","_","N","A","M","E"," ",
          "-","-","l","o","c","a","t","i","o","n","=","L","O","C","A","T",
          "I","O","N"," ","-","-","p","r","o","j","e","c","t","=","P","R",
          "O","J","E","C","T","_","I","D">>],
      [service |-> N_gke, action |-> N_list, template |->
        \* "gcloud container clusters list --project=PROJECT_ID"
        <<"g","c","l","o","u","d"," ","c","o","n","t","a","i","n","e","r",
          " ","c","l","u","s","t","e","r","s"," ","l","i","s","t"," ","-",
          "-","p","r","o","j","e","c","t","=","P","R","O","J","E","C","T",
          "_","I","D">>],
      [service |-> N_compute, action |-> N_describe, template |->
        \* "gcloud compute instances describe INSTANCE_NAME --zone=ZONE --project=PROJECT_ID"
        <<"g","c","l","o","u","d"," ","c","o","m","p","u","t","e"," ","i",
          "n","s","t","a","n","c","e","s"," ","d","e","s","c","r","i","b",
          "e"," ","I","N","S","T","A","N","C","E","_","N","A","M","E"," ",
          "-","-","z","o","n","e","=","Z","O","N","E"," ","-","-","p","r",
          "o","j","e","c","t","=","P","R","O","J","E","C","T","_","I","D">>],
      [service |-> N_compute, action |-> N_list, template |->
        \* "gcloud compute instances list --project=PROJECT_ID"
        <<"g","c","l","o","u","d"," ","c","o","m","p","u","t","e"," ","i",
          "n","s","t","a","n","c","e","s"," ","l","i","s","t"," ","-","-",
          "p","r","o","j","e","c","t","=","P","R","O","J","E","C","T","_",
          "I","D">>],
      [service |-> N_cloud_sql, action |-> N_describe, template |->
        \* "gcloud sql instances describe INSTANCE_NAME --project=PROJECT_ID"
        <<"g","c","l","o","u","d"," ","s","q","l"," ","i","n","s","t","a",
          "n","c","e","s"," ","d","e","s","c","r","i","b","e"," ","I","N",
          "S","T","A","N","C","E","_","N","A","M","E"," ","-","-","p","r",
          "o","j","e","c","t","=","P","R","O","J","E","C","T","_","I","D">>],
      [service |-> N_cloud_sql, action |-> N_list, template |->
        \* "gcloud sql instances list --project=PROJECT_ID"
        <<"g","c","l","o","u","d"," ","s","q","l"," ","i","n","s","t","a",
          "n","c","e","s"," ","l","i","s","t"," ","-","-","p","r","o","j",
          "e","c","t","=","P","R","O","J","E","C","T","_","I","D">>],
      [service |-> N_storage, action |-> N_describe, template |->
        \* "gcloud storage buckets describe gs://BUCKET_NAME --project=PROJECT_ID"
        <<"g","c","l","o","u","d"," ","s","t","o","r","a","g","e"," ","b",
          "u","c","k","e","t","s"," ","d","e","s","c","r","i","b","e"," ",
          "g","s",":","/","/","B","U","C","K","E","T","_","N","A","M","E",
          " ","-","-","p","r","o","j","e","c","t","=","P","R","O","J","E",
          "C","T","_","I","D">>],
      [service |-> N_storage, action |-> N_list, template |->
        \* "gcloud storage buckets list --project=PROJECT_ID"
        <<"g","c","l","o","u","d"," ","s","t","o","r","a","g","e"," ","b",
          "u","c","k","e","t","s"," ","l","i","s","t"," ","-","-","p","r",
          "o","j","e","c","t","=","P","R","O","J","E","C","T","_","I","D">>],
      [service |-> N_iam, action |-> N_policy, template |->
        \* "gcloud projects get-iam-policy PROJECT_ID --format=json"
        <<"g","c","l","o","u","d"," ","p","r","o","j","e","c","t","s"," ",
          "g","e","t","-","i","a","m","-","p","o","l","i","c","y"," ","P",
          "R","O","J","E","C","T","_","I","D"," ","-","-","f","o","r","m",
          "a","t","=","j","s","o","n">>]>>

\* SERVICE_HINTS, in the order of the dict
SERVICE_HINTS ==
    <<[name |-> N_cloud_run, hints |-> <<
        <<"c","l","o","u","d"," ","r","u","n">>,   \* "cloud run"
        <<"r","u","n"," ","s","e","r","v","i","c","e">>,   \* "run service"
        <<"c","l","o","u","d","r","u","n">>,   \* "cloudrun"
        <<"r","u","n"," ">>,   \* "run "
        <<"c","l","o","u","d","-","r","u","n">>,   \* "cloud-run"
        <<"s","e","r","v","e","r","l","e","s","s"," ","r","u","n">>   \* "serverless run"
        >>],
      [name |-> N_gke, hints |-> <<
        <<"g","k","e">>,   \* "gke"
        <<"k","u","b","e","r","n","e","t","e","s">>,   \* "kubernetes"
        <<"k","8","s">>,   \* "k8s"
        <<"c","l","u","s","t","e","r">>,   \* "cluster"
        <<"k","u","b","e","r","n","e","t","e","s"," ","e","n","g","i","n",
          "e">>   \* "kubernetes engine"
        >>],
      [name |-> N_compute, hints |-> <<
        <<"c","o","m","p","u","t","e"," ","e","n","g","i","n","e">>,   \* "compute engine"
        <<"c","o","m","p","u","t","e">>,   \* "compute"
        <<"v","m">>,   \* "vm"
        <<"i","n","s","t","a","n","c","e">>,   \* "instance"
        <<"v","m"," ","i","n","s","t","a","n","c","e">>,   \* "vm instance"
        <<"g","c","e">>   \* "gce"
        >>],
      [name |-> N_cloud_sql, hints |-> <<
        <<"c","l","o","u","d"," ","s","q","l">>,   \* "cloud sql"
        <<"s","q","l"," ","i","n","s","t","a","n","c","e">>,   \* "sql instance"
        <<"p","o","s","t","g","r","e","s">>,   \* "postgres"
        <<"m","y","s","q","l">>,   \* "mysql"
        <<"c","l","o","u","d","s","q","l">>,   \* "cloudsql"
        <<"c","s","q","l">>   \* "csql"
        >>],
      [name |-> N_storage, hints |-> <<
        <<"c","l","o","u","d"," ","s","t","o","r","a","g","e">>,   \* "cloud storage"
        <<"g","c","s">>,   \* "gcs"
        <<"b","u","c","k","e","t">>,   \* "bucket"
        <<"s","t","o","r","a","g","e">>   \* "storage"
        >>],
      [name |-> N_iam, hints |-> <<
        <<"i","a","m">>,   \* "iam"
        <<"p","o","l","i","c","y">>,   \* "policy"
        <<"w","h","o"," ","h","a","s"," ","a","c","c","e","s","s">>,   \* "who has access"
        <<"p","e","r","m","i","s","s","i","o","n","s">>,   \* "permissions"
        <<"r","o","l","e","s">>,   \* "roles"
        <<"m","e","m","b","e","r","s">>,   \* "members"
        <<"a","c","c","e","s","s">>   \* "access"
        >>]>>

\* ACTION_HINTS, in the order of the dict
ACTION_HINTS ==
    <<[name |-> N_describe, hints |-> <<
        <<"d","e","s","c","r","i","b","e">>,   \* "describe"
        <<"c","o","n","f","i","g">>,   \* "config"
        <<"c","o","n","f","i","g","u","r","a","t","i","o","n">>,   \* "configuration"
        <<"s","e","t","t","i","n","g","s">>,   \* "settings"
        <<"d","e","t","a","i","l","s">>,   \* "details"
        <<"i","n","s","p","e","c","t">>,   \* "inspect"
        <<"s","p","e","c">>,   \* "spec"
        <<"y","a","m","l">>,   \* "yaml"
        <<"s","h","o","w"," ","c","o","n","f","i","g">>   \* "show config"
        >>],
      [name |-> N_list, hints |-> <<
        <<"l","i","s","t">>,   \* "list"
        <<"l","s">>,   \* "ls"
        <<"s","h","o","w"," ","a","l","l">>,   \* "show all"
        <<"e","n","u","m","e","r","a","t","e">>,   \* "enumerate"
        <<"l","i","s","t"," ","a","l","l">>   \* "list all"
        >>],
      [name |-> N_logs_read, hints |-> <<
        <<"l","o","g","s">>,   \* "logs"
        <<"r","e","a","d"," ","l","o","g","s">>,   \* "read logs"
        <<"v","i","e","w"," ","l","o","g","s">>,   \* "view logs"
        <<"g","e","t"," ","l","o","g","s">>,   \* "get logs"
        <<"e","r","r","o","r"," ","l","o","g","s">>,   \* "error logs"
        <<"e","r","r","o","r","s">>   \* "errors"
        >>],
      [name |-> N_logs_tail, hints |-> <<
        <<"t","a","i","l">>,   \* "tail"
        <<"s","t","r","e","a","m">>,   \* "stream"
        <<"f","o","l","l","o","w">>   \* "follow"
        >>],
      [name |-> N_revisions_list, hints |-> <<
        <<"r","e","v","i","s","i","o","n","s">>,   \* "revisions"
        <<"h","i","s","t","o","r","y">>,   \* "history"
        <<"p","r","e","v","i","o","u","s"," ","v","e","r","s","i","o","n",
          "s">>,   \* "previous versions"
        <<"a","l","l"," ","r","e","v","i","s","i","o","n","s">>   \* "all revisions"
        >>],
      [name |-> N_revisions_describe, hints |-> <<
        <<"r","e","v","i","s","i","o","n"," ","d","e","t","a","i","l","s">>,   \* "revision details"
        <<"d","e","s","c","r","i","b","e"," ","r","e","v","i","s","i","o",
          "n">>   \* "describe revision"
        >>],
      [name |-> N_policy, hints |-> <<
        <<"i","a","m"," ","p","o","l","i","c","y">>,   \* "iam policy"
        <<"p","o","l","i","c","y">>,   \* "policy"
        <<"w","h","o"," ","h","a","s"," ","a","c","c","e","s","s">>,   \* "who has access"
        <<"m","e","m","b","e","r","s">>,   \* "members"
        <<"r","o","l","e","s">>,   \* "roles"
        <<"p","e","r","m","i","s","s","i","o","n","s">>   \* "permissions"
        >>]>>

\* ACTION_PREFERENCE
ACTION_PREFERENCE ==
    <<N_logs_tail, N_logs_read, N_revisions_describe, N_revisions_list, N_describe, N_list, N_policy>>

\* "Unsupported/ambiguous prompt. Try mentioning a product (e.g., 'Cloud Run', 'GKE', 'Compute Engine', 'Cloud SQL', 'Cloud Storage', or 'IAM')."
M_unsupported ==
    <<"U","n","s","u","p","p","o","r","t","e","d","/","a","m","b","i",
      "g","u","o","u","s"," ","p","r","o","m","p","t","."," ","T","r",
      "y"," ","m","e","n","t","i","o","n","i","n","g"," ","a"," ","p",
      "r","o","d","u","c","t"," ","(","e",".","g",".",","," ","'","C",
      "l","o","u","d"," ","R","u","n","'",","," ","'","G","K","E","'",
      ","," ","'","C","o","m","p","u","t","e"," ","E","n","g","i","n",
      "e","'",","," ","'","C","l","o","u","d"," ","S","Q","L","'",",",
      " ","'","C","l","o","u","d"," ","S","t","o","r","a","g","e","'",
      ","," ","o","r"," ","'","I","A","M","'",")",".">>
\* "No safe template for: "
M_no_template ==
    <<"N","o"," ","s","a","f","e"," ","t","e","m","p","l","a","t","e",
      " ","f","o","r",":"," ">>
\* " + "
M_plus == <<" ","+"," ">>
\* ". Add one to TEMPLATES."
M_add_one ==
    <<"."," ","A","d","d"," ","o","n","e"," ","t","o"," ","T","E","M",
      "P","L","A","T","E","S",".">>
\* Usage: python gcloud_cmd_gen.py "your prompt here"
M_usage ==
    <<"U","s","a","g","e",":"," ","p","y","t","h","o","n"," ","g","c",
      "l","o","u","d","_","c","m","d","_","g","e","n",".","p","y"," ",
      "\"","y","o","u","r"," ","p","r","o","m","p","t"," ","h","e","r",
      "e","\"">>

\* any(h in t for h in hints)
AnyHint(hints, t) == \E k \in 1..Len(hints) : Contains(t, hints[k])

\* pick_service: the first service of SERVICE_HINTS one of whose hints occurs
\* in the lower-cased text, None when there is none
pick_service(text) ==
    LET t == LowerStr(text)
        hit == {k \in 1..Len(SERVICE_HINTS) : AnyHint(SERVICE_HINTS[k].hints, t)}
    IN  IF hit = {} THEN None
        ELSE Some(SERVICE_HINTS[CHOOSE k \in hit : \A j \in hit : k <= j].name)

\* matches = [k for k, hints in ACTION_HINTS.items() if any(h in t for h in hints)]
ActionMatches(text) ==
    LET t == LowerStr(text)
        hit == SelectSeq(ACTION_HINTS, LAMBDA a : AnyHint(a.hints, t))
    IN  [k \in 1..Len(hit) |-> hit[k].name]

\* mutant: the first match in the order of ACTION_HINTS is returned
pick_action_FirstMatch(svc, text) ==
    LET matches == ActionMatches(text)
    IN  IF svc = N_iam THEN N_policy
        ELSE IF matches = <<>> THEN N_describe
        ELSE matches[1]

\* pick_action
pick_action(svc, text) ==
    LET matches == ActionMatches(text)
        prefs == {k \in 1..Len(ACTION_PREFERENCE) :
                    ACTION_PREFERENCE[k] \in Range(matches)}
    IN  IF svc = N_iam THEN N_policy
        ELSE IF matches = <<>> THEN N_describe
        ELSE IF prefs # {}
             THEN ACTION_PREFERENCE[CHOOSE k \in prefs : \A j \in prefs : k <= j]
             ELSE matches[1]

\* generate: the string returned, with the service and the action picked
generate(text) ==
    LET svc == pick_service(text)
    IN  IF svc = None
        THEN [service |-> None, action |-> None, text |-> M_unsupported]
        ELSE LET act == pick_action(svc[1], text)
                 hit == {k \in 1..Len(TEMPLATES) :
                           TEMPLATES[k].service = svc[1] /\ TEMPLATES[k].action = act}
             IN  [service |-> svc, action |-> Some(act),
                  text |-> IF hit = {}
                           THEN M_no_template \o svc[1] \o M_plus \o act \o M_add_one
                           ELSE TEMPLATES[CHOOSE k \in hit : TRUE].template]

\* ---- prompts handed to the template generator ----

\* "Cloud Run"
P_CloudRun ==
    <<"C","l","o","u","d"," ","R","u","n">>
\* "GKE"
P_GKE ==
    <<"G","K","E">>
\* "Compute Engine"
P_ComputeEngine ==
    <<"C","o","m","p","u","t","e"," ","E","n","g","i","n","e">>
\* "Cloud SQL"
P_CloudSQL ==
    <<"C","l","o","u","d"," ","S","Q","L">>
\* "Cloud Storage"
P_CloudStorage ==
    <<"C","l","o","u","d"," ","S","t","o","r","a","g","e">>
\* "IAM"
P_IAM ==
    <<"I","A","M">>
\* "list"
W_list ==
    <<"l","i","s","t">>
\* "logs"
W_logs ==
    <<"l","o","g","s">>
\* "details"
W_details ==
    <<"d","e","t","a","i","l","s">>
\* "instances"
W_instances ==
    <<"i","n","s","t","a","n","c","e","s">>
\* "revisions"
W_revisions ==
    <<"r","e","v","i","s","i","o","n","s">>
\* "my"
W_my ==
    <<"m","y">>
\* "weather"
W_weather ==
    <<"w","e","a","t","h","e","r">>

\* longest prompt, in words
MaxWords == 2

ProductNames == {P_CloudRun, P_GKE, P_ComputeEngine, P_CloudSQL, P_CloudStorage, P_IAM}
PromptWords ==
    ProductNames \cup {LowerStr(p) : p \in ProductNames}
        \cup {W_list, W_logs, W_details, W_instances, W_revisions, W_my, W_weather}
SimplePrompts ==
    UNION {{Join(ws, SP) : ws \in [1..n -> PromptWords]} : n \in 1..MaxWords}

InitSimple ==
    /\ pc = "simple_main"
    /\ world = WorldGroups
    /\ argvPrompt \in {None} \cup {Some(p) : p \in SimplePrompts}
    /\ service = None
    /\ action = None
    /\ simpleOut = None
    /\ IdleGen /\ IdleVal /\ IdleScrape /\ IdleRender /\ IdleChoose
    /\ IdleScore /\ IdleParse /\ IdleRun /\ IdleBuild

\* main, lines 138-140: no prompt on the command line
SimpleUsage ==
    /\ pc = "simple_main"
    /\ argvPrompt = None
    /\ simpleOut' = Some(M_usage)
    /\ pc' = "simple_exit_1"
    /\ UNCHANGED <<world, argvPrompt, service, action, genVars, valVars, scrapeVars,
                   renderVars, chooseVars, scoreVars, parseVars, runVars, buildVars>>

\* main, lines 141-142: print(generate(prompt))
SimpleGenerate ==
    /\ pc = "simple_main"
    /\ argvPrompt # None
    /\ LET g == generate(argvPrompt[1])
       IN  /\ service' = g.service
           /\ action' = g.action
           /\ simpleOut' = Some(g.text)
    /\ pc' = "simple_done"
    /\ UNCHANGED <<world, argvPrompt, genVars, valVars, scrapeVars,
                   renderVars, chooseVars, scoreVars, parseVars, runVars, buildVars>>

NextSimple == SimpleUsage \/ SimpleGenerate

SpecSimple == InitSimple /\ [][NextSimple]_vars

\* the order of actions the preference is stated in
C16_Order ==
    <<N_logs_tail, N_logs_read, N_revisions_describe, N_revisions_list,
      N_describe, N_list, N_policy>>
C16_Rank(a) == CHOOSE k \in 1..Len(C16_Order) : C16_Order[k] = a
\* the actions one of whose hints occurs in the lower-cased prompt
C16_Matched(text) ==
    {ACTION_HINTS[k].name : k \in {j \in 1..Len(ACTION_HINTS) :
        \E h \in Range(ACTION_HINTS[j].hints) : Contains(LowerStr(text), h)}}

\* C16: pick_action resolves conflicts by a stable preference order: for the
\* service iam it returns policy; otherwise, when hints of several actions
\* occur in the prompt, it returns the matched action that comes first in the
\* order logs_tail, logs_read, revisions_describe, revisions_list, describe,
\* list, policy; when no action hint occurs it returns describe.
C16_PreferenceOrder ==
    (pc = "simple_done" /\ service # None)
    => LET m == C16_Matched(argvPrompt[1])
       IN  /\ action # None
           /\ service[1] = N_iam => action[1] = N_policy
           /\ (service[1] # N_iam /\ m = {}) => action[1] = N_describe
           /\ (service[1] # N_iam /\ m # {})
                => /\ action[1] \in m
                   /\ \A b \in m : C16_Rank(action[1]) <= C16_Rank(b)

\* the prompt "GKE details": hints of describe ("details"), of list ("ls") and
\* of logs_tail ("tail") occur in it, and logs_tail, listed after the two
\* others in ACTION_HINTS, is returned
C16_Witness ==
    /\ pc = "simple_done"
    /\ argvPrompt = Some(Join(<<P_GKE, W_details>>, SP))
    /\ service = Some(N_gke)
    /\ C16_Matched(argvPrompt[1]) = {N_describe, N_list, N_logs_tail}
    /\ action = Some(N_logs_tail)

\* the products the tool names as supported (the message of line 130 and the
\* headings of TEMPLATES), each with its service
C17_Products ==
    <<[name |-> P_CloudRun, service |-> N_cloud_run],
      [name |-> P_GKE, service |-> N_gke],
      [name |-> P_ComputeEngine, service |-> N_compute],
      [name |-> P_CloudSQL, service |-> N_cloud_sql],
      [name |-> P_CloudStorage, service |-> N_storage],
      [name |-> P_IAM, service |-> N_iam]>>
\* the products whose name occurs in the prompt, in any letter case
C17_Mentioned(text) ==
    {k \in 1..Len(C17_Products) :
        Contains(LowerStr(text), LowerStr(C17_Products[k].name))}
C17_TemplatesOf(svc) ==
    {TEMPLATES[k].template : k \in {j \in 1..Len(TEMPLATES) : TEMPLATES[j].service = svc}}
C17_SomeHintOccurs(text) ==
    \E k \in 1..Len(SERVICE_HINTS) : \E h \in Range(SERVICE_HINTS[k].hints) :
        Contains(LowerStr(text), h)

\* C17: for every prompt that mentions one of the supported products (Cloud
\* Run, GKE, Compute Engine, Cloud SQL, Cloud Storage, IAM), in any letter case
\* and with any other words around it, generate returns a command template of
\* that product's service; it returns the 'Unsupported/ambiguous prompt'
\* message only when no service hint occurs in the prompt. (Read for prompts
\* that mention exactly one product.)
C17_ProductTemplateReturned ==
    pc = "simple_done"
    => LET m == C17_Mentioned(argvPrompt[1])
       IN  /\ \A k \in m :
                m = {k} => simpleOut[1] \in C17_TemplatesOf(C17_Products[k].service)
           /\ simpleOut[1] = M_unsupported => ~C17_SomeHintOccurs(argvPrompt[1])

\* the help call of parse_help_for_command succeeded at some release level
C18_HelpSucceeds ==
    \E lvl \in {<<>>, <<S_beta>>, <<S_alpha>>} :
        Run(<<S_gcloud>> \o lvl \o parsePath \o <<S_help>>).rc = 0
\* 'gcloud', the release level if beta or alpha, and the command path
C18_Base ==
    <<S_gcloud>>
        \o (IF parsed[1].release \in {S_beta, S_alpha} THEN <<parsed[1].release>> ELSE <<>>)
        \o parsePath

\* C18: render/validate round trip: when the help call for a command path
\* succeeds, the command string render_command produces from the CommandSpec
\* parse_help_for_command built passes validate_command_string against the
\* same help text: the help call of the validator is for exactly 'gcloud',
\* the release level if beta or alpha, and the command path, it succeeds, and
\* no flag of the rendered command is reported unknown.
C18_RoundTrip ==
    (pc = "validated" /\ C18_HelpSucceeds)
    => /\ parsedCheck[1].calls = <<C18_Base \o <<S_help>>>>
       /\ parsedCheck[1].help_ok
       /\ parsedCheck[1].unknown = {}
       /\ parsedCheck[1].ok

\* help exists at the beta level only and its usage line names SERVICE and
\* REGION: the rendered command carries the release level, two placeholders
\* and flags, and the validator asks for the help of 'gcloud beta run deploy'
C18_Witness ==
    /\ pc = "validated"
    /\ world = HelpAtLevel(parsePath, <<S_beta>>,
                           Join(<<L_usage, L_usage_service>>, NL) \o NL)
    /\ parsed[1].release = S_beta
    /\ parsed[1].positionals = <<U_SERVICE, U_REGION>>
    /\ LET words == Split(parsedCmd[1])
           n == Len(C18_Base)
       IN  /\ Len(words) > n + 2
           /\ SubSeq(words, 1, n + 2)
                = C18_Base \o <<<<"<">> \o LowerStr(U_SERVICE) \o <<">">>,
                                <<"<">> \o LowerStr(U_REGION) \o <<">">>>>
           /\ \A k \in (n + 3)..Len(words) : StartsWith(words[k], <<"-", "-">>)
    /\ parsedCheck[1].calls = <<<<S_gcloud, S_beta>> \o parsePath \o <<S_help>>>>
    /\ parsedCheck[1].ok

====
